---- MODULE Spec2Model ----
(***************************************************************************)
(* A model of the word tokenizer: the Tokenizer class (src/tokenizer.js),  *)
(* the Thai segmenters (src/languages/thai.js) and the stemmer             *)
(* (src/utils/stemmer.js).                                                 *)
(*                                                                         *)
(* A JavaScript string is a sequence of UTF-16 code units, each a natural  *)
(* number; a word is written as the tuple of its code units.               *)
(***************************************************************************)
EXTENDS Integers, Sequences, FiniteSets, TLC

VARIABLES
    pc,          \* the position of the running function
    text,        \* the text argument of the running segmenter
    tokens,      \* the token list the running segmenter has built
    dictionary,  \* dictionaryTokenize: its dictionary argument
    remaining,   \* dictionaryTokenize: the text not yet consumed
    lastIndex,   \* the universal pattern's lastIndex (0-based code unit index)
    token,       \* stemToken: its argument
    word,        \* stemToken: its local word
    options,     \* Tokenizer: this.options
    stopwords,   \* Tokenizer: this.stopwords
    heap,        \* the Set objects that hold dictionaries, by address
    call,        \* Tokenizer: the last call of a public method and its outcome
    pending,     \* the loadThaiDictionary calls whose file read is in flight
    other        \* a second Tokenizer: its options and stopwords

instance == <<options, stopwords, heap, call, pending, other>>

vars == <<pc, text, tokens, dictionary, remaining, lastIndex, token, word,
          options, stopwords, heap, call, pending, other>>

\* What each function leaves alone: the state of the others.
notDict == <<lastIndex, token, word, instance>>
notUniv == <<dictionary, remaining, token, word, instance>>
notSimple == <<dictionary, remaining, word, instance>>
notStem == <<text, tokens, dictionary, remaining, lastIndex, instance>>
notCall == <<text, tokens, dictionary, remaining, lastIndex, token, word,
             pending, other>>
notLoad == <<text, tokens, dictionary, remaining, lastIndex, token, word,
             other>>

----------------------------------------------------------------------------
(* Bounds of the model.                                                    *)

\* The longest text handed to dictionaryTokenize.
MaxTextLen == 4

----------------------------------------------------------------------------
(* The instance variables where no Tokenizer is modelled.                  *)

\* What a method returns: an array (items) or a plain object (counts).
ArrayResult(items) == [kind |-> "array", items |-> items, counts |-> <<>>]
ObjectResult(counts) == [kind |-> "object", items |-> <<>>, counts |-> counts]

Str(s) == [type |-> "string", str |-> s, num |-> 0]

NoRun == [threw |-> FALSE, raw |-> <<>>, folded |-> <<>>, filtered |-> <<>>,
          tokens |-> <<>>]

\* An array argument of a call (items), or an argument that is no array.
NoList == [isArray |-> FALSE, items |-> <<>>]

\* What a dictionary load read from its file (ok, data), and what it
\* reported: whether it threw, the error (err) and the count it returned or
\* handed to its callback, when it had one.
NoLoad == [ok |-> FALSE, data |-> <<>>, threw |-> FALSE, callback |-> FALSE,
           err |-> FALSE, count |-> 0]

NoCall == [op |-> "none", arg |-> Str(<<>>), n |-> 0, run |-> NoRun,
           result |-> ArrayResult(<<>>), list |-> NoList, load |-> NoLoad]

DefaultOptions ==
    [lowercase |-> TRUE, removeStopwords |-> FALSE, customStopwords |-> <<>>,
     stemming |-> FALSE, language |-> "en", thaiDictionary |-> 0]

\* No second Tokenizer.
NoOther == [present |-> FALSE, options |-> DefaultOptions, stopwords |-> {}]

NoInstance ==
    /\ options = DefaultOptions
    /\ stopwords = {}
    /\ heap = <<>>
    /\ call = NoCall
    /\ pending = 0
    /\ other = NoOther

----------------------------------------------------------------------------
(* String primitives of JavaScript, on sequences of code units.            *)

\* s.slice(n), 0 <= n
SliceFrom(s, n) == SubSeq(s, n + 1, Len(s))

\* s.slice(0, -n), 0 < n
SliceOff(s, n) == SubSeq(s, 1, Len(s) - n)

\* s.startsWith(w)
StartsWith(s, w) == Len(w) <= Len(s) /\ SubSeq(s, 1, Len(w)) = w

\* s.endsWith(w)
EndsWith(s, w) ==
    Len(w) <= Len(s) /\ SubSeq(s, Len(s) - Len(w) + 1, Len(s)) = w

\* All strings over an alphabet, of length at most n.
StringsUpTo(alphabet, n) == UNION {[1..k -> alphabet] : k \in 0..n}

----------------------------------------------------------------------------
(* Character classes.                                                      *)

\* thaiPattern = /[\u0E00-\u0E7F]/
thaiPattern(c) == c \in 3584..3711

\* thaiVowelPattern = /[\u0E30-\u0E3A\u0E40-\u0E45]/
thaiVowelPattern(c) == c \in 3632..3642 \/ c \in 3648..3653

\* thaiToneMarkPattern = /[\u0E47-\u0E4E]/
thaiToneMarkPattern(c) == c \in 3655..3662

\* The code units String.prototype.trim removes (WhiteSpace and
\* LineTerminator of ECMAScript).
IsWhiteSpace(c) ==
    \/ c \in 9..13
    \/ c \in {32, 160, 5760, 8232, 8233, 8239, 8287, 12288, 65279}
    \/ c \in 8192..8202

----------------------------------------------------------------------------
(* simpleTokenize: the heuristic segmenter for Thai.                       *)

\* The body of the for loop closing the token before a vowel after a tone
\* mark too.
SimpleIterationSplitsAfterToneMark(txt, i, st) ==
    LET char == txt[i]
        flushed == IF st.currentToken # <<>>
                   THEN Append(st.tokens, st.currentToken)
                   ELSE st.tokens
    IN  IF char = 32 \/ ~thaiPattern(char)
        THEN [tokens |-> IF ~IsWhiteSpace(char)
                         THEN Append(flushed, <<char>>)
                         ELSE flushed,
              currentToken |-> <<>>]
        ELSE LET current == Append(st.currentToken, char)
                 nextIsVowel == i < Len(txt) /\ thaiVowelPattern(txt[i + 1])
             IN  IF ~thaiVowelPattern(char) /\ nextIsVowel
                 THEN [tokens |-> Append(st.tokens, current),
                       currentToken |-> <<>>]
                 ELSE [tokens |-> st.tokens, currentToken |-> current]

\* The body of the for loop at index i (1-based here): st holds the locals
\* tokens and currentToken.
SimpleIteration(txt, i, st) ==
    LET char == txt[i]
        flushed == IF st.currentToken # <<>>
                   THEN Append(st.tokens, st.currentToken)
                   ELSE st.tokens
    IN  IF char = 32 \/ ~thaiPattern(char)
        THEN [tokens |-> IF ~IsWhiteSpace(char)
                         THEN Append(flushed, <<char>>)
                         ELSE flushed,
              currentToken |-> <<>>]
        ELSE LET current == Append(st.currentToken, char)
                 nextIsVowel == i < Len(txt) /\ thaiVowelPattern(txt[i + 1])
             IN  IF /\ ~thaiVowelPattern(char)
                    /\ ~thaiToneMarkPattern(char)
                    /\ nextIsVowel
                 THEN [tokens |-> Append(st.tokens, current),
                       currentToken |-> <<>>]
                 ELSE [tokens |-> st.tokens, currentToken |-> current]

RECURSIVE SimpleLoop(_, _, _)
SimpleLoop(txt, i, st) ==
    IF i <= Len(txt)
    THEN SimpleLoop(txt, i + 1, SimpleIteration(txt, i, st))
    ELSE st

simpleTokenize(txt) ==
    LET st == SimpleLoop(txt, 1, [tokens |-> <<>>, currentToken |-> <<>>])
    IN  IF st.currentToken # <<>>
        THEN Append(st.tokens, st.currentToken)
        ELSE st.tokens

----------------------------------------------------------------------------
(* dictionaryTokenize: longest-match segmentation.                         *)
(*                                                                         *)
(* A dictionary argument is null or a Set; a Set iterates in insertion     *)
(* order, so its content is the sequence of its distinct words in that     *)
(* order.                                                                  *)

NullDictionary == [isNull |-> TRUE, words |-> <<>>]
SetOf(words) == [isNull |-> FALSE, words |-> words]

\* ScanDictionary without the length comparison: the last matching word
\* wins instead of the longest.
RECURSIVE ScanDictionaryLastMatch(_, _, _, _)
ScanDictionaryLastMatch(rem, words, i, best) ==
    IF i > Len(words)
    THEN best
    ELSE LET entry == words[i]
         IN  ScanDictionaryLastMatch(rem, words, i + 1,
                 IF StartsWith(rem, entry) /\ Len(entry) > 0
                 THEN [longestWord |-> entry, found |-> TRUE]
                 ELSE best)

\* ScanDictionary keeping the first matching word it meets.
RECURSIVE ScanDictionaryFirstMatch(_, _, _, _)
ScanDictionaryFirstMatch(rem, words, i, best) ==
    IF i > Len(words)
    THEN best
    ELSE LET entry == words[i]
         IN  ScanDictionaryFirstMatch(rem, words, i + 1,
                 IF StartsWith(rem, entry) /\ Len(entry) > 0 /\ ~best.found
                 THEN [longestWord |-> entry, found |-> TRUE]
                 ELSE best)

\* ScanDictionary taking a matching word that is at least as long as
\* longestWord, the empty string included.
RECURSIVE ScanDictionaryAtLeastAsLong(_, _, _, _)
ScanDictionaryAtLeastAsLong(rem, words, i, best) ==
    IF i > Len(words)
    THEN best
    ELSE LET entry == words[i]
         IN  ScanDictionaryAtLeastAsLong(rem, words, i + 1,
                 IF StartsWith(rem, entry) /\ Len(entry) >= Len(best.longestWord)
                 THEN [longestWord |-> entry, found |-> TRUE]
                 ELSE best)

\* The for-of loop over the dictionary, from its i-th word on, with the
\* locals longestWord and found.
RECURSIVE ScanDictionary(_, _, _, _)
ScanDictionary(rem, words, i, best) ==
    IF i > Len(words)
    THEN best
    ELSE LET entry == words[i]
         IN  ScanDictionary(rem, words, i + 1,
                 IF StartsWith(rem, entry) /\ Len(entry) > Len(best.longestWord)
                 THEN [longestWord |-> entry, found |-> TRUE]
                 ELSE best)

\* The inner while loop dropping every leading white space character.
RECURSIVE SkipWhiteSpace(_)
SkipWhiteSpace(rem) ==
    IF Len(rem) > 0 /\ IsWhiteSpace(rem[1])
    THEN SkipWhiteSpace(SliceFrom(rem, 1))
    ELSE rem

\* The inner while loop: drop the leading ASCII spaces.
RECURSIVE SkipSpaces(_)
SkipSpaces(rem) ==
    IF Len(rem) > 0 /\ rem[1] = 32 THEN SkipSpaces(SliceFrom(rem, 1)) ELSE rem

\* One iteration of the outer while loop without its inner while loop: the
\* spaces after the token stay in the remaining text.
DictIterationKeepsSpaces(rem, toks, words) ==
    LET best == ScanDictionary(rem, words, 1,
                               [longestWord |-> <<>>, found |-> FALSE])
    IN  IF best.found
        THEN [tokens |-> Append(toks, best.longestWord),
              remaining |-> SliceFrom(rem, Len(best.longestWord))]
        ELSE [tokens |-> Append(toks, <<rem[1]>>),
              remaining |-> SliceFrom(rem, 1)]

\* One iteration of the outer while loop.
DictIteration(rem, toks, words) ==
    LET best == ScanDictionary(rem, words, 1,
                               [longestWord |-> <<>>, found |-> FALSE])
    IN  IF best.found
        THEN [tokens |-> Append(toks, best.longestWord),
              remaining |-> SkipSpaces(SliceFrom(rem, Len(best.longestWord)))]
        ELSE [tokens |-> Append(toks, <<rem[1]>>),
              remaining |-> SkipSpaces(SliceFrom(rem, 1))]

RECURSIVE DictLoop(_, _, _)
DictLoop(rem, toks, words) ==
    IF Len(rem) > 0
    THEN LET next == DictIteration(rem, toks, words)
         IN  DictLoop(next.remaining, next.tokens, words)
    ELSE toks

dictionaryTokenize(txt, dict) ==
    IF txt = <<>> THEN <<>>
    ELSE IF dict.isNull \/ Len(dict.words) = 0 THEN simpleTokenize(txt)
    ELSE DictLoop(txt, <<>>, dict.words)

----------------------------------------------------------------------------
(* SpecDict: dictionaryTokenize run one loop iteration at a time, on every *)
(* text over a small alphabet and a choice of dictionaries.                *)

\* a b c d, the space and the tab
DictAlphabet == {97, 98, 99, 100, 32, 9}

DictTexts == StringsUpTo(DictAlphabet, MaxTextLen)

DictChoices ==
    { NullDictionary,
      SetOf(<<>>),
      SetOf(<< <<97>>, <<97, 98>>, <<97, 98, 99>> >>),       \* a, ab, abc
      SetOf(<< <<97, 98, 99>>, <<97, 98>>, <<97>> >>),       \* abc, ab, a
      SetOf(<< <<98, 32, 99>>, <<98>> >>),                   \* "b c", b
      SetOf(<< <<>>, <<99, 100>> >>) }                       \* "", cd

InitDict ==
    /\ NoInstance
    /\ pc = "call"
    /\ text \in DictTexts
    /\ dictionary \in DictChoices
    /\ tokens = <<>>
    /\ remaining = <<>>
    /\ lastIndex = 0
    /\ token = <<>>
    /\ word = <<>>

\* if (!text) return [];
DictEmptyText ==
    /\ pc = "call"
    /\ text = <<>>
    /\ pc' = "done"
    /\ tokens' = <<>>
    /\ UNCHANGED <<text, dictionary, remaining, notDict>>

\* if (!dictionary || !dictionary.size) return simpleTokenize(text);
DictFallback ==
    /\ pc = "call"
    /\ text # <<>>
    /\ dictionary.isNull \/ Len(dictionary.words) = 0
    /\ pc' = "done"
    /\ tokens' = simpleTokenize(text)
    /\ UNCHANGED <<text, dictionary, remaining, notDict>>

\* const tokens = []; let remaining = text;
DictStart ==
    /\ pc = "call"
    /\ text # <<>>
    /\ ~dictionary.isNull /\ Len(dictionary.words) > 0
    /\ pc' = "loop"
    /\ tokens' = <<>>
    /\ remaining' = text
    /\ UNCHANGED <<text, dictionary, notDict>>

\* while (remaining.length > 0) { ... }
DictStep ==
    /\ pc = "loop"
    /\ Len(remaining) > 0
    /\ LET next == DictIteration(remaining, tokens, dictionary.words)
       IN  /\ tokens' = next.tokens
           /\ remaining' = next.remaining
    /\ UNCHANGED <<pc, text, dictionary, notDict>>

\* return tokens;
DictReturn ==
    /\ pc = "loop"
    /\ Len(remaining) = 0
    /\ pc' = "done"
    /\ UNCHANGED <<text, tokens, dictionary, remaining, notDict>>

NextDict ==
    \/ DictEmptyText
    \/ DictFallback
    \/ DictStart
    \/ DictStep
    \/ DictReturn

SpecDict == InitDict /\ [][NextDict]_vars

\* dictionaryTokenize is synchronous: once called it runs on, whatever
\* step is next, until it returns.
SpecDictRuns == SpecDict /\ WF_vars(NextDict)

----------------------------------------------------------------------------
(* SpecSimple: simpleTokenize run one iteration of its loop at a time, on  *)
(* every text over a small alphabet. lastIndex is the number of characters *)
(* the loop has passed and token is currentToken.                          *)

\* The longest text handed to simpleTokenize.
MaxSimpleLen == 4

\* The consonant U+0E01, the vowel U+0E32, the tone mark U+0E48, the
\* letter a, the space, the tab, and the two code units of the emoji
\* U+1F600
SimpleAlphabet == {3585, 3634, 3656, 97, 32, 9, 55357, 56832}

SimpleTexts == StringsUpTo(SimpleAlphabet, MaxSimpleLen)

\* const tokens = []; let currentToken = "";
InitSimple ==
    /\ NoInstance
    /\ pc = "loop"
    /\ text \in SimpleTexts
    /\ tokens = <<>>
    /\ token = <<>>
    /\ lastIndex = 0
    /\ dictionary = NullDictionary
    /\ remaining = <<>>
    /\ word = <<>>

\* for (let i = 0; i < text.length; i++) { ... }
SimpleStep ==
    /\ pc = "loop"
    /\ lastIndex < Len(text)
    /\ LET st == SimpleIteration(text, lastIndex + 1,
                                 [tokens |-> tokens, currentToken |-> token])
       IN  /\ tokens' = st.tokens
           /\ token' = st.currentToken
    /\ lastIndex' = lastIndex + 1
    /\ UNCHANGED <<pc, text, notSimple>>

\* if (currentToken) tokens.push(currentToken); return tokens;
SimpleReturn ==
    /\ pc = "loop"
    /\ lastIndex = Len(text)
    /\ pc' = "done"
    /\ tokens' = IF token # <<>> THEN Append(tokens, token) ELSE tokens
    /\ UNCHANGED <<text, token, lastIndex, notSimple>>

NextSimple ==
    \/ SimpleStep
    \/ SimpleReturn

SpecSimple == InitSimple /\ [][NextSimple]_vars

----------------------------------------------------------------------------
(* Claims about dictionaryTokenize, checked under SpecDict.                *)

Range(s) == {s[i] : i \in DOMAIN s}

Spaces(k) == [i \in 1..k |-> 32]

\* The dictionary entries that match at the head of the remaining text: a
\* match has a length > 0.
Matching(rem, dict) == {w \in Range(dict.words) : w # <<>> /\ StartsWith(rem, w)}

C1_Iteration ==
    (pc = "loop" /\ pc' = "loop") =>
        LET emitted == tokens'[Len(tokens')]
            matching == Matching(remaining, dictionary)
        IN  /\ tokens' = Append(tokens, emitted)
            /\ matching # {} =>
                   /\ emitted \in matching
                   /\ \A w \in matching : Len(w) <= Len(emitted)
            /\ matching = {} => emitted = <<remaining[1]>>
            /\ \E k \in 0..Len(remaining) :
                   SliceFrom(remaining, Len(emitted)) = Spaces(k) \o remaining'

C1_Example ==
    (/\ pc = "done"
     /\ text = <<97, 98, 99, 100>>
     /\ Range(dictionary.words) = {<<97>>, <<97, 98>>, <<97, 98, 99>>})
        => tokens = << <<97, 98, 99>>, <<100>> >>

\* C1: with a non-empty dictionary, every iteration of dictionaryTokenize
\* emits the longest dictionary entry that is a prefix of the remaining text
\* and advances past it, or, when no entry matches, emits the single next
\* character and advances by one; {a, ab, abc} on abcd gives [abc, d].
C1_LongestPrefixMatch == [][C1_Iteration]_vars /\ []C1_Example

\* C1 witness: abcd was segmented with {a, ab, abc}: abc won over a and ab,
\* and d, which no entry matches, was emitted alone.
C1_Witness ==
    /\ pc = "done"
    /\ text = <<97, 98, 99, 100>>
    /\ Range(dictionary.words) = {<<97>>, <<97, 98>>, <<97, 98, 99>>}
    /\ tokens = << <<97, 98, 99>>, <<100>> >>

----------------------------------------------------------------------------
(* The universal matcher: text.matchAll(/\p{L}+(?:\p{M}*\p{L}+)*|\p{N}+/gu). *)
(*                                                                         *)
(* With the u flag the pattern works on code points: a high surrogate      *)
(* followed by a low surrogate is one character. Positions are 1-based     *)
(* indexes of code units; an end is the index after the last unit.         *)

IsHighSurrogate(c) == c \in 55296..56319
IsLowSurrogate(c) == c \in 56320..57343

CodePointWidth(txt, i) ==
    IF IsHighSurrogate(txt[i]) /\ i < Len(txt) /\ IsLowSurrogate(txt[i + 1])
    THEN 2 ELSE 1

CodePointAt(txt, i) ==
    IF CodePointWidth(txt, i) = 2
    THEN 65536 + (txt[i] - 55296) * 1024 + (txt[i + 1] - 56320)
    ELSE txt[i]

\* The Unicode general categories L, M and N on the blocks the texts of the
\* model are drawn from: Basic Latin, Combining Diacritical Marks and Thai.
InClass(cls, cp) ==
    CASE cls = "L" -> \/ cp \in 65..90
                      \/ cp \in 97..122
                      \/ cp \in 3585..3632
                      \/ cp \in 3634..3635
                      \/ cp \in 3648..3654
      [] cls = "M" -> \/ cp \in 768..879
                      \/ cp = 3633
                      \/ cp \in 3636..3642
                      \/ cp \in 3655..3662
      [] cls = "N" -> \/ cp \in 48..57
                      \/ cp \in 3664..3673

\* A greedy run \p{cls}* from i: the index after it.
RECURSIVE RunEnd(_, _, _)
RunEnd(cls, txt, i) ==
    IF i <= Len(txt) /\ InClass(cls, CodePointAt(txt, i))
    THEN RunEnd(cls, txt, i + CodePointWidth(txt, i))
    ELSE i

\* The pattern without its group of marks: \p{L}+|\p{N}+.
GroupsEndNoGroup(txt, i) == i

\* (?:\p{M}*\p{L}+)* from i, greedy: an iteration whose marks no letter
\* follows fails, and the match ends before those marks.
RECURSIVE GroupsEnd(_, _)
GroupsEnd(txt, i) ==
    LET m == RunEnd("M", txt, i)
        l == RunEnd("L", txt, m)
    IN  IF l > m THEN GroupsEnd(txt, l) ELSE i

\* The end of the match that starts at i, or 0 when none starts there.
MatchAt(txt, i) ==
    LET l == RunEnd("L", txt, i)
        n == RunEnd("N", txt, i)
    IN  IF l > i THEN GroupsEnd(txt, l)
        ELSE IF n > i THEN n
        ELSE 0

\* One exec of the pattern from index i: the first match at or after i.
RECURSIVE SearchFrom(_, _)
SearchFrom(txt, i) ==
    IF i > Len(txt)
    THEN [found |-> FALSE, index |-> 0, end |-> 0]
    ELSE LET e == MatchAt(txt, i)
         IN  IF e > 0
             THEN [found |-> TRUE, index |-> i, end |-> e]
             ELSE SearchFrom(txt, i + CodePointWidth(txt, i))

\* Array.from(text.matchAll(universalWordPattern), (m) => m[0])
RECURSIVE MatchAllFrom(_, _, _)
MatchAllFrom(txt, i, toks) ==
    LET m == SearchFrom(txt, i)
    IN  IF m.found
        THEN MatchAllFrom(txt, m.end,
                          Append(toks, SubSeq(txt, m.index, m.end - 1)))
        ELSE toks

universalTokenize(txt) == MatchAllFrom(txt, 1, <<>>)

----------------------------------------------------------------------------
(* SpecUniv: the universal matcher run one match at a time, on every text  *)
(* over a small alphabet.                                                  *)

\* The longest text handed to the universal matcher.
MaxUnivLen == 4

\* a, 1, the combining acute accent U+0301, the space, !, and the two code
\* units of the emoji U+1F600
UnivAlphabet == {97, 49, 769, 32, 33, 55357, 56832}

UnivTexts == StringsUpTo(UnivAlphabet, MaxUnivLen)

InitUniv ==
    /\ NoInstance
    /\ pc = "call"
    /\ text \in UnivTexts
    /\ tokens = <<>>
    /\ lastIndex = 0
    /\ dictionary = NullDictionary
    /\ remaining = <<>>
    /\ token = <<>>
    /\ word = <<>>

\* the iterator yields a match
UnivMatch ==
    /\ pc \in {"call", "matching"}
    /\ LET m == SearchFrom(text, lastIndex + 1)
       IN  /\ m.found
           /\ tokens' = Append(tokens, SubSeq(text, m.index, m.end - 1))
           /\ lastIndex' = m.end - 1
    /\ pc' = "matching"
    /\ UNCHANGED <<text, notUniv>>

\* the iterator is exhausted
UnivExhausted ==
    /\ pc \in {"call", "matching"}
    /\ ~SearchFrom(text, lastIndex + 1).found
    /\ pc' = "done"
    /\ UNCHANGED <<text, tokens, lastIndex, notUniv>>

NextUniv ==
    \/ UnivMatch
    \/ UnivExhausted

SpecUniv == InitUniv /\ [][NextUniv]_vars

----------------------------------------------------------------------------
(* Claims about the universal matcher, checked under SpecUniv.             *)

MinOf(S) == CHOOSE x \in S : \A y \in S : x <= y
MaxOf(S) == CHOOSE x \in S : \A y \in S : y <= x

\* The code points of a string.
RECURSIVE Decode(_, _)
Decode(s, i) ==
    IF i > Len(s) THEN <<>>
    ELSE <<CodePointAt(s, i)>> \o Decode(s, i + CodePointWidth(s, i))

\* s matches 'letters, then groups of (marks, letters)': it is made of
\* letters and marks and both begins and ends with a letter; or s matches
\* 'one or more numeric characters'.
PatternMatches(s) ==
    LET cps == Decode(s, 1)
    IN  /\ cps # <<>>
        /\ \/ /\ InClass("L", cps[1])
              /\ InClass("L", cps[Len(cps)])
              /\ \A i \in DOMAIN cps : InClass("L", cps[i]) \/ InClass("M", cps[i])
           \/ \A i \in DOMAIN cps : InClass("N", cps[i])

\* The ends of the matching substrings that start at i.
MatchEnds(txt, i) ==
    {e \in (i + 1)..(Len(txt) + 1) : PatternMatches(SubSeq(txt, i, e - 1))}

\* The successive leftmost maximal matching substrings from index i on.
RECURSIVE LeftmostMaximal(_, _)
LeftmostMaximal(txt, i) ==
    LET starts == {s \in i..Len(txt) : MatchEnds(txt, s) # {}}
    IN  IF starts = {} THEN <<>>
        ELSE LET s == MinOf(starts)
                 e == MaxOf(MatchEnds(txt, s))
             IN  <<SubSeq(txt, s, e - 1)>> \o LeftmostMaximal(txt, e)

\* The maximal runs of characters other than the space.
RECURSIVE SplitOnSpaces(_)
SplitOnSpaces(s) ==
    IF s = <<>> THEN <<>>
    ELSE IF s[1] = 32 THEN SplitOnSpaces(Tail(s))
    ELSE LET k == CHOOSE k \in 1..Len(s) :
                      /\ \A j \in 1..k : s[j] # 32
                      /\ k = Len(s) \/ s[k + 1] = 32
         IN  <<SubSeq(s, 1, k)>> \o SplitOnSpaces(SliceFrom(s, k))

IsAsciiLetter(c) == c \in 65..90 \/ c \in 97..122

HasClass(cls, s) == \E i \in DOMAIN s : InClass(cls, s[i])

\* C3: in universal mode the raw tokens are exactly the successive leftmost
\* maximal substrings that match the pattern, in order (while the iterator
\* runs, the first of them); no token holds both a letter and a digit; and
\* on a text of ASCII letters and spaces the tokens are the runs of letters.
C3_LeftmostMaximalMatches ==
    LET expected == LeftmostMaximal(text, 1)
    IN  /\ pc = "matching" =>
              /\ Len(tokens) <= Len(expected)
              /\ tokens = SubSeq(expected, 1, Len(tokens))
        /\ pc = "done" =>
              /\ tokens = expected
              /\ \A i \in DOMAIN tokens :
                     ~(HasClass("L", tokens[i]) /\ HasClass("N", tokens[i]))
              /\ (\A i \in DOMAIN text : text[i] = 32 \/ IsAsciiLetter(text[i]))
                     => tokens = SplitOnSpaces(text)

\* C3 witness: a, accent, a, 1 was matched: the accent between the letters
\* stays inside the word and the digit is a token of its own.
C3_Witness ==
    /\ pc = "done"
    /\ text = <<97, 769, 97, 49>>
    /\ tokens = << <<97, 769, 97>>, <<49>> >>

\* C4: the universal matcher drops only non-matching characters: a mark that
\* directly follows a letter stays in that letter's token, whether or not a
\* letter follows the mark.
C4_AttachedMarkKept ==
    pc = "done" =>
        \A p \in 2..Len(text) :
            (InClass("L", text[p - 1]) /\ InClass("M", text[p])) =>
                \E i \in DOMAIN tokens :
                    \E q \in 2..Len(tokens[i]) :
                        /\ tokens[i][q - 1] = text[p - 1]
                        /\ tokens[i][q] = text[p]

----------------------------------------------------------------------------
(* stemToken: the stemmer.                                                 *)

\* String.prototype.toLowerCase on the cased letters the model's texts hold:
\* the letters of Basic Latin.
LowerUnit(c) == IF c \in 65..90 THEN c + 32 ELSE c
toLowerCase(s) == [i \in DOMAIN s |-> LowerUnit(s[i])]

\* /[aeiou]/.test(s)
HasVowel(s) == \E i \in DOMAIN s : s[i] \in {97, 101, 105, 111, 117}

\* Step 1a dropping the last s of a word that ends in ss.
Step1aDropsSs(w) ==
    IF EndsWith(w, <<115, 115, 101, 115>>) THEN SliceOff(w, 2)
    ELSE IF EndsWith(w, <<105, 101, 115>>) THEN SliceOff(w, 2)
    ELSE IF EndsWith(w, <<115>>) THEN SliceOff(w, 1)
    ELSE w

\* Step 1a
Step1a(w) ==
    IF EndsWith(w, <<115, 115, 101, 115>>) THEN SliceOff(w, 2)      \* sses
    ELSE IF EndsWith(w, <<105, 101, 115>>) THEN SliceOff(w, 2)      \* ies
    ELSE IF EndsWith(w, <<115, 115>>) THEN w                        \* ss
    ELSE IF EndsWith(w, <<115>>) THEN SliceOff(w, 1)                \* s
    ELSE w

\* Step 1b without the length > 2 condition on the double-letter rule.
Step1bAnyLength(w) ==
    IF EndsWith(w, <<101, 101, 100>>) THEN SliceOff(w, 1)
    ELSE IF \/ EndsWith(w, <<101, 100>>) /\ HasVowel(SliceOff(w, 2))
            \/ EndsWith(w, <<105, 110, 103>>) /\ HasVowel(SliceOff(w, 3))
    THEN LET cut == IF EndsWith(w, <<101, 100>>)
                    THEN SliceOff(w, 2) ELSE SliceOff(w, 3)
         IN  IF \/ EndsWith(cut, <<97, 116>>)
                \/ EndsWith(cut, <<98, 108>>)
                \/ EndsWith(cut, <<105, 122>>)
             THEN Append(cut, 101)
             ELSE IF /\ Len(cut) >= 2
                     /\ cut[Len(cut)] = cut[Len(cut) - 1]
                     /\ cut[Len(cut)] \notin {108, 115, 122}
             THEN SliceOff(cut, 1)
             ELSE cut
    ELSE w

\* Step 1b
Step1b(w) ==
    IF EndsWith(w, <<101, 101, 100>>) THEN SliceOff(w, 1)           \* eed
    ELSE IF \/ EndsWith(w, <<101, 100>>) /\ HasVowel(SliceOff(w, 2))         \* ed
            \/ EndsWith(w, <<105, 110, 103>>) /\ HasVowel(SliceOff(w, 3))    \* ing
    THEN LET cut == IF EndsWith(w, <<101, 100>>)
                    THEN SliceOff(w, 2) ELSE SliceOff(w, 3)
         IN  IF \/ EndsWith(cut, <<97, 116>>)                       \* at
                \/ EndsWith(cut, <<98, 108>>)                       \* bl
                \/ EndsWith(cut, <<105, 122>>)                      \* iz
             THEN Append(cut, 101)                                  \* + e
             ELSE IF /\ Len(cut) > 2
                     /\ cut[Len(cut)] = cut[Len(cut) - 1]
                     /\ cut[Len(cut)] \notin {108, 115, 122}        \* l s z
             THEN SliceOff(cut, 1)
             ELSE cut
    ELSE w

\* Step 1c without the length > 2 condition.
Step1cAnyLength(w) ==
    IF /\ EndsWith(w, <<121>>)
       /\ Len(w) >= 2
       /\ ~HasVowel(<<w[Len(w) - 1]>>)
    THEN Append(SliceOff(w, 1), 105)
    ELSE w

\* Step 1c
Step1c(w) ==
    IF /\ EndsWith(w, <<121>>)                                      \* y
       /\ Len(w) > 2
       /\ ~HasVowel(<<w[Len(w) - 1]>>)
    THEN Append(SliceOff(w, 1), 105)                                \* i
    ELSE w

\* stemToken on a string
stemToken(tok) ==
    IF tok = <<>> THEN <<>>
    ELSE Step1c(Step1b(Step1a(toLowerCase(tok))))

----------------------------------------------------------------------------
(* SpecStem: stemToken run one step at a time, on every word made of a     *)
(* short stem over a small alphabet and one of the endings the rules read. *)

\* The longest stem a word of SpecStem is built from.
MaxStemLen == 3

\* a e t l p and the capital T
StemLetters == {97, 101, 116, 108, 112, 84}

StemEndings ==
    { <<>>,
      <<115>>,                       \* s
      <<115, 115>>,                  \* ss
      <<115, 115, 101, 115>>,        \* sses
      <<105, 101, 115>>,             \* ies
      <<101, 100>>,                  \* ed
      <<101, 100, 115>>,             \* eds
      <<105, 110, 103>>,             \* ing
      <<98, 108, 101, 100>>,         \* bled
      <<105, 122, 105, 110, 103>>,   \* izing
      <<122, 122, 101, 100>>,        \* zzed
      <<121>>,                       \* y
      <<121, 115>>,                  \* ys
      <<73, 78, 71>> }               \* ING

\* Whole words stemmed besides the built ones.
StemExamples ==
    { <<114, 117, 110, 110, 105, 110, 103>>,     \* running
      <<114, 117, 110>>,                         \* run
      <<110, 101, 101, 100, 101, 100>> }         \* needed

StemWords ==
    {stm \o ending : stm \in StringsUpTo(StemLetters, MaxStemLen),
                     ending \in StemEndings}
    \cup StemExamples

InitStem ==
    /\ NoInstance
    /\ pc = "call"
    /\ token \in StemWords
    /\ word = <<>>
    /\ text = <<>>
    /\ tokens = <<>>
    /\ dictionary = NullDictionary
    /\ remaining = <<>>
    /\ lastIndex = 0

\* if (!token || typeof token !== "string") return "";
StemEmpty ==
    /\ pc = "call"
    /\ token = <<>>
    /\ word' = <<>>
    /\ pc' = "done"
    /\ UNCHANGED <<token, notStem>>

\* let word = token.toLowerCase();
StemLower ==
    /\ pc = "call"
    /\ token # <<>>
    /\ word' = toLowerCase(token)
    /\ pc' = "step1a"
    /\ UNCHANGED <<token, notStem>>

StemStep1a ==
    /\ pc = "step1a"
    /\ word' = Step1a(word)
    /\ pc' = "step1b"
    /\ UNCHANGED <<token, notStem>>

StemStep1b ==
    /\ pc = "step1b"
    /\ word' = Step1b(word)
    /\ pc' = "step1c"
    /\ UNCHANGED <<token, notStem>>

\* Step 1c, and return word;
StemStep1c ==
    /\ pc = "step1c"
    /\ word' = Step1c(word)
    /\ pc' = "done"
    /\ UNCHANGED <<token, notStem>>

NextStem ==
    \/ StemEmpty
    \/ StemLower
    \/ StemStep1a
    \/ StemStep1b
    \/ StemStep1c

SpecStem == InitStem /\ [][NextStem]_vars

----------------------------------------------------------------------------
(* Claims about the stemmer, checked under SpecStem.                       *)

Vowels == {97, 101, 105, 111, 117}

\* w with its last n characters removed
Without(w, n) == SubSeq(w, 1, Len(w) - n)

\* The last n characters of w
LastN(w, n) == SubSeq(w, Len(w) - n + 1, Len(w))

\* After the suffix is dropped: e is appended after at, bl, iz; otherwise a
\* doubled final character other than l, s, z is dropped, when the word is
\* longer than minLen characters.
Step2Repair(w, minLen) ==
    IF Len(w) >= 2 /\ LastN(w, 2) \in {<<97, 116>>, <<98, 108>>, <<105, 122>>}
    THEN w \o <<101>>
    ELSE IF /\ Len(w) >= 2
            /\ Len(w) > minLen
            /\ w[Len(w)] = w[Len(w) - 1]
            /\ w[Len(w)] \notin {108, 115, 122}
    THEN Without(w, 1)
    ELSE w

\* Step 2 as the claim states it, the double-letter rule applying to words
\* longer than minLen characters.
Step2Rule(w, minLen) ==
    LET stemOf(n) == Without(w, n)
        vowelIn(x) == \E i \in DOMAIN x : x[i] \in Vowels
    IN  IF Len(w) >= 3 /\ LastN(w, 3) = <<101, 101, 100>>
        THEN Without(w, 1)
        ELSE IF Len(w) >= 2 /\ LastN(w, 2) = <<101, 100>> /\ vowelIn(stemOf(2))
        THEN Step2Repair(stemOf(2), minLen)
        ELSE IF Len(w) >= 3 /\ LastN(w, 3) = <<105, 110, 103>> /\ vowelIn(stemOf(3))
        THEN Step2Repair(stemOf(3), minLen)
        ELSE w

C10_Step2 == (pc = "step1b" /\ pc' = "step1c") => word' = Step2Rule(word, 2)

\* C10, amended: Step 2 works on the output of Step 1: a trailing eed loses
\* its last character; otherwise a trailing ed or ing whose stem holds a
\* vowel is dropped, and then e is appended after at, bl, iz, else the final
\* character is dropped if the word is longer than 2 characters, its last
\* two characters are identical and that character is not l, s or z; in
\* every other case the word is unchanged.
C10_Step2LongerThanTwo == [][C10_Step2]_vars

C10_Step2Original ==
    (pc = "step1b" /\ pc' = "step1c") => word' = Step2Rule(word, 0)

\* C10 as stated: the double-letter rule applies to every resulting word,
\* whatever its length.
C10_Step2AnyLength == [][C10_Step2Original]_vars

\* C10 witness: Step 2 has run on a word whose suffix it dropped and whose
\* doubled final character it then dropped (apped -> app -> ap).
C10_Witness ==
    /\ pc = "step1c"
    /\ token = <<97, 112, 112, 101, 100>>
    /\ word = <<97, 112>>

\* Step 1 as the claim states it.
Step1Rule(w) ==
    IF Len(w) >= 4 /\ LastN(w, 4) = <<115, 115, 101, 115>> THEN Without(w, 2)
    ELSE IF Len(w) >= 3 /\ LastN(w, 3) = <<105, 101, 115>> THEN Without(w, 2)
    ELSE IF Len(w) >= 2 /\ LastN(w, 2) = <<115, 115>> THEN w
    ELSE IF Len(w) >= 1 /\ LastN(w, 1) = <<115>> THEN Without(w, 1)
    ELSE w

\* Step 3 as the claim states it.
Step3Rule(w) ==
    IF Len(w) > 2 /\ w[Len(w)] = 121 /\ w[Len(w) - 1] \notin Vowels
    THEN Without(w, 1) \o <<105>>
    ELSE w

\* t is s with every capital letter replaced by its small letter
IsLowercaseOf(t, s) ==
    /\ Len(t) = Len(s)
    /\ \A i \in DOMAIN s :
           t[i] = IF s[i] \in 65..90 THEN s[i] + 32 ELSE s[i]

C11_Steps ==
    /\ (pc = "call" /\ pc' = "step1a") => IsLowercaseOf(word', token)
    /\ (pc = "step1a" /\ pc' = "step1b") => word' = Step1Rule(word)
    /\ (pc = "step1c" /\ pc' = "done") => word' = Step3Rule(word)
    /\ token' = token

C11_Result ==
    (pc = "done" /\ token # <<>>) =>
        \E low \in {word} \cup {toLowerCase(token)} :
            /\ IsLowercaseOf(low, token)
            /\ word = Step3Rule(Step2Rule(Step1Rule(low), 2))

\* C11: the stemmer lowercases its token, then applies Step 1 (sses: drop 2
\* characters; else ies: drop 2; else ss: unchanged; else s: drop 1) and,
\* after Step 2, Step 3 to Step 2's output (a final y, in a word longer than
\* 2 characters, after a character that is not a vowel, becomes i); each step
\* works on the previous step's output and the returned word is the
\* composition of the steps, nothing else.
C11_StemmerSteps == [][C11_Steps]_vars /\ []C11_Result

\* C11 witness: a capitalised word that Step 1 and Step 3 both rewrote has
\* been returned (Tlys -> tlys -> tly -> tli).
C11_Witness ==
    /\ pc = "done"
    /\ token = <<84, 108, 121, 115>>
    /\ word = <<116, 108, 105>>

\* No rule of the three steps applies to w: w holds no capital letter, does
\* not end in s (other than ss), nor in eed, nor in ed or ing after a part
\* that holds a vowel, nor, when longer than 2 characters, in y after a
\* character that is not a vowel.
InStemmedForm(w) ==
    LET ends(suffix) == Len(w) >= Len(suffix) /\ LastN(w, Len(suffix)) = suffix
        vowelBefore(n) == \E i \in 1..(Len(w) - n) : w[i] \in Vowels
    IN  /\ \A i \in DOMAIN w : w[i] \notin 65..90
        /\ ends(<<115>>) => ends(<<115, 115>>)
        /\ ~ends(<<101, 101, 100>>)
        /\ ~(ends(<<101, 100>>) /\ vowelBefore(2))
        /\ ~(ends(<<105, 110, 103>>) /\ vowelBefore(3))
        /\ ~(ends(<<121>>) /\ Len(w) > 2 /\ w[Len(w) - 1] \notin Vowels)

\* C12 as stated: stem(stem(w)) = stem(w) for every token w; word is
\* stem(token) once the call is done.
C12_Idempotent == (pc = "done") => stemToken(word) = word

\* C12, amended: a word already in stemmed form (no implemented rule applies
\* to it) is returned unchanged, so stem(stem(w)) = stem(w) whenever stem(w)
\* is in stemmed form; stem(running) = run and stem(run) = run.
C12_IdempotentOnStemmedForm ==
    (pc = "done") =>
        /\ InStemmedForm(token) => word = token
        /\ InStemmedForm(word) => stemToken(word) = word
        /\ token \in { <<114, 117, 110, 110, 105, 110, 103>>,
                       <<114, 117, 110>> }
              => word = <<114, 117, 110>>

\* C12 witness: running has been stemmed to run, a word in stemmed form.
C12_Witness ==
    /\ pc = "done"
    /\ token = <<114, 117, 110, 110, 105, 110, 103>>
    /\ word = <<114, 117, 110>>
    /\ InStemmedForm(word)

----------------------------------------------------------------------------
(* JavaScript values handed to the public methods: a string, or a value of *)
(* another type.                                                           *)

NonStrings ==
    { [type |-> "null", str |-> <<>>, num |-> 0],
      [type |-> "undefined", str |-> <<>>, num |-> 0],
      [type |-> "number", str |-> <<>>, num |-> 0],
      [type |-> "number", str |-> <<>>, num |-> 5],
      [type |-> "object", str |-> <<>>, num |-> 0] }

\* !v
Falsy(v) ==
    \/ v.type \in {"null", "undefined"}
    \/ v.type = "number" /\ v.num = 0
    \/ v.type = "string" /\ v.str = <<>>

----------------------------------------------------------------------------
(* The Tokenizer class.                                                    *)

\* The default English stopwords of setupStopwords.
BaseStopwords ==
    {
      <<97>>,                                               \* a
      <<97, 110>>,                                          \* an
      <<116, 104, 101>>,                                    \* the
      <<97, 110, 100>>,                                     \* and
      <<111, 114>>,                                         \* or
      <<98, 117, 116>>,                                     \* but
      <<105, 115>>,                                         \* is
      <<97, 114, 101>>,                                     \* are
      <<119, 97, 115>>,                                     \* was
      <<119, 101, 114, 101>>,                               \* were
      <<98, 101>>,                                          \* be
      <<98, 101, 101, 110>>,                                \* been
      <<98, 101, 105, 110, 103>>,                           \* being
      <<105, 110>>,                                         \* in
      <<111, 110>>,                                         \* on
      <<97, 116>>,                                          \* at
      <<116, 111>>,                                         \* to
      <<102, 111, 114>>,                                    \* for
      <<119, 105, 116, 104>>,                               \* with
      <<98, 121>>,                                          \* by
      <<97, 98, 111, 117, 116>>,                            \* about
      <<97, 103, 97, 105, 110, 115, 116>>,                  \* against
      <<98, 101, 116, 119, 101, 101, 110>>,                 \* between
      <<105, 110, 116, 111>>,                               \* into
      <<116, 104, 114, 111, 117, 103, 104>>,                \* through
      <<100, 117, 114, 105, 110, 103>>,                     \* during
      <<98, 101, 102, 111, 114, 101>>,                      \* before
      <<97, 102, 116, 101, 114>>,                           \* after
      <<97, 98, 111, 118, 101>>,                            \* above
      <<98, 101, 108, 111, 119>>,                           \* below
      <<102, 114, 111, 109>>,                               \* from
      <<117, 112>>,                                         \* up
      <<100, 111, 119, 110>>,                               \* down
      <<111, 102>>,                                         \* of
      <<111, 102, 102>>,                                    \* off
      <<111, 118, 101, 114>>,                               \* over
      <<117, 110, 100, 101, 114>>,                          \* under
      <<97, 103, 97, 105, 110>>,                            \* again
      <<102, 117, 114, 116, 104, 101, 114>>,                \* further
      <<116, 104, 101, 110>>,                               \* then
      <<111, 110, 99, 101>>,                                \* once
      <<104, 101, 114, 101>>,                               \* here
      <<116, 104, 101, 114, 101>>,                          \* there
      <<119, 104, 101, 110>>,                               \* when
      <<119, 104, 101, 114, 101>>,                          \* where
      <<119, 104, 121>>,                                    \* why
      <<104, 111, 119>>,                                    \* how
      <<97, 108, 108>>,                                     \* all
      <<97, 110, 121>>,                                     \* any
      <<98, 111, 116, 104>>,                                \* both
      <<101, 97, 99, 104>>,                                 \* each
      <<102, 101, 119>>,                                    \* few
      <<109, 111, 114, 101>>,                               \* more
      <<109, 111, 115, 116>>,                               \* most
      <<111, 116, 104, 101, 114>>,                          \* other
      <<115, 111, 109, 101>>,                               \* some
      <<115, 117, 99, 104>>,                                \* such
      <<110, 111>>,                                         \* no
      <<110, 111, 114>>,                                    \* nor
      <<110, 111, 116>>,                                    \* not
      <<111, 110, 108, 121>>,                               \* only
      <<111, 119, 110>>,                                    \* own
      <<115, 97, 109, 101>>,                                \* same
      <<115, 111>>,                                         \* so
      <<116, 104, 97, 110>>,                                \* than
      <<116, 111, 111>>,                                    \* too
      <<118, 101, 114, 121>>,                               \* very
      <<105>>,                                              \* i
      <<109, 101>>,                                         \* me
      <<109, 121>>,                                         \* my
      <<109, 121, 115, 101, 108, 102>>,                     \* myself
      <<119, 101>>,                                         \* we
      <<111, 117, 114>>,                                    \* our
      <<111, 117, 114, 115>>,                               \* ours
      <<111, 117, 114, 115, 101, 108, 118, 101, 115>>,      \* ourselves
      <<121, 111, 117>>,                                    \* you
      <<121, 111, 117, 114>>,                               \* your
      <<121, 111, 117, 114, 115>>,                          \* yours
      <<121, 111, 117, 114, 115, 101, 108, 102>>,           \* yourself
      <<121, 111, 117, 114, 115, 101, 108, 118, 101, 115>>, \* yourselves
      <<104, 101>>,                                         \* he
      <<104, 105, 109>>,                                    \* him
      <<104, 105, 115>>,                                    \* his
      <<104, 105, 109, 115, 101, 108, 102>>,                \* himself
      <<115, 104, 101>>,                                    \* she
      <<104, 101, 114>>,                                    \* her
      <<104, 101, 114, 115>>,                               \* hers
      <<104, 101, 114, 115, 101, 108, 102>>,                \* herself
      <<105, 116>>,                                         \* it
      <<105, 116, 115>>,                                    \* its
      <<105, 116, 115, 101, 108, 102>>,                     \* itself
      <<116, 104, 101, 121>>,                               \* they
      <<116, 104, 101, 109>>,                               \* them
      <<116, 104, 101, 105, 114>>,                          \* their
      <<116, 104, 101, 105, 114, 115>>,                     \* theirs
      <<116, 104, 101, 109, 115, 101, 108, 118, 101, 115>>, \* themselves
      <<119, 104, 97, 116>>,                                \* what
      <<119, 104, 105, 99, 104>>,                           \* which
      <<119, 104, 111>>,                                    \* who
      <<119, 104, 111, 109>>,                               \* whom
      <<116, 104, 105, 115>>,                               \* this
      <<116, 104, 97, 116>>,                                \* that
      <<116, 104, 101, 115, 101>>,                          \* these
      <<116, 104, 111, 115, 101>>,                          \* those
      <<97, 109>>,                                          \* am
      <<104, 97, 118, 101>>,                                \* have
      <<104, 97, 115>>,                                     \* has
      <<104, 97, 100>>,                                     \* had
      <<104, 97, 118, 105, 110, 103>>,                      \* having
      <<100, 111>>,                                         \* do
      <<100, 111, 101, 115>>,                               \* does
      <<100, 105, 100>>,                                    \* did
      <<100, 111, 105, 110, 103>>,                          \* doing
      <<119, 111, 117, 108, 100>>,                          \* would
      <<115, 104, 111, 117, 108, 100>>,                     \* should
      <<99, 111, 117, 108, 100>>,                           \* could
      <<111, 117, 103, 104, 116>>,                          \* ought
      <<105, 39, 109>>,                                     \* i'm
      <<121, 111, 117, 39, 114, 101>>,                      \* you're
      <<104, 101, 39, 115>>,                                \* he's
      <<115, 104, 101, 39, 115>>,                           \* she's
      <<105, 116, 39, 115>>,                                \* it's
      <<119, 101, 39, 114, 101>>,                           \* we're
      <<116, 104, 101, 121, 39, 114, 101>>,                 \* they're
      <<105, 39, 118, 101>>,                                \* i've
      <<121, 111, 117, 39, 118, 101>>,                      \* you've
      <<119, 101, 39, 118, 101>>,                           \* we've
      <<116, 104, 101, 121, 39, 118, 101>>,                 \* they've
      <<105, 39, 100>>,                                     \* i'd
      <<121, 111, 117, 39, 100>>,                           \* you'd
      <<104, 101, 39, 100>>,                                \* he'd
      <<115, 104, 101, 39, 100>>,                           \* she'd
      <<119, 101, 39, 100>>,                                \* we'd
      <<116, 104, 101, 121, 39, 100>>,                      \* they'd
      <<105, 39, 108, 108>>,                                \* i'll
      <<121, 111, 117, 39, 108, 108>>,                      \* you'll
      <<104, 101, 39, 108, 108>>,                           \* he'll
      <<115, 104, 101, 39, 108, 108>>,                      \* she'll
      <<119, 101, 39, 108, 108>>,                           \* we'll
      <<116, 104, 101, 121, 39, 108, 108>>,                 \* they'll
      <<105, 115, 110, 39, 116>>,                           \* isn't
      <<97, 114, 101, 110, 39, 116>>,                       \* aren't
      <<119, 97, 115, 110, 39, 116>>,                       \* wasn't
      <<119, 101, 114, 101, 110, 39, 116>>,                 \* weren't
      <<104, 97, 115, 110, 39, 116>>,                       \* hasn't
      <<104, 97, 118, 101, 110, 39, 116>>,                  \* haven't
      <<104, 97, 100, 110, 39, 116>>,                       \* hadn't
      <<100, 111, 101, 115, 110, 39, 116>>,                 \* doesn't
      <<100, 111, 110, 39, 116>>,                           \* don't
      <<100, 105, 100, 110, 39, 116>>,                      \* didn't
      <<119, 111, 110, 39, 116>>,                           \* won't
      <<119, 111, 117, 108, 100, 110, 39, 116>>,            \* wouldn't
      <<115, 104, 97, 110, 39, 116>>,                       \* shan't
      <<115, 104, 111, 117, 108, 100, 110, 39, 116>>,       \* shouldn't
      <<99, 97, 110, 39, 116>>,                             \* can't
      <<99, 97, 110, 110, 111, 116>>,                       \* cannot
      <<99, 111, 117, 108, 100, 110, 39, 116>>,             \* couldn't
      <<109, 117, 115, 116, 110, 39, 116>>,                 \* mustn't
      <<108, 101, 116, 39, 115>>,                           \* let's
      <<116, 104, 97, 116, 39, 115>>,                       \* that's
      <<119, 104, 111, 39, 115>>,                           \* who's
      <<119, 104, 97, 116, 39, 115>>,                       \* what's
      <<104, 101, 114, 101, 39, 115>>,                      \* here's
      <<116, 104, 101, 114, 101, 39, 115>>,                 \* there's
      <<119, 104, 101, 110, 39, 115>>,                      \* when's
      <<119, 104, 101, 114, 101, 39, 115>>,                 \* where's
      <<119, 104, 121, 39, 115>>,                           \* why's
      <<104, 111, 119, 39, 115>>                            \* how's
    }

\* ["en", "es", "fr", "it", "pt", "de", "nl"]
StemLanguages == {"en", "es", "fr", "it", "pt", "de", "nl"}

\* this.options after the constructor: an option left undefined takes its
\* default; thaiDictionary is the address of a Set, or 0 for null.
\* The constructor taking every option left out as false.
ConstructOptionsFalseWhenLeftOut(args) ==
    [lowercase |-> args.lowercase = "true",
     removeStopwords |-> args.removeStopwords = "true",
     customStopwords |-> args.customStopwords,
     stemming |-> args.stemming = "true",
     language |-> IF args.language = "" THEN "en" ELSE args.language,
     thaiDictionary |-> args.thaiDictionary]

ConstructOptions(args) ==
    [lowercase |-> IF args.lowercase = "undefined" THEN TRUE
                   ELSE args.lowercase = "true",
     removeStopwords |-> IF args.removeStopwords = "undefined" THEN FALSE
                         ELSE args.removeStopwords = "true",
     customStopwords |-> args.customStopwords,
     stemming |-> IF args.stemming = "undefined" THEN FALSE
                  ELSE args.stemming = "true",
     language |-> IF args.language = "" THEN "en" ELSE args.language,
     thaiDictionary |-> args.thaiDictionary]

\* setupStopwords: the base list, the language's list when its file can be
\* loaded (languageFile.found) and the language is not "en", and the custom
\* entries, each in lower case.
SetupStopwords(opts, languageFile) ==
    BaseStopwords
        \cup (IF opts.language # "en" /\ languageFile.found
              THEN {toLowerCase(languageFile.words[i]) :
                        i \in DOMAIN languageFile.words}
              ELSE {})
        \cup {toLowerCase(opts.customStopwords[i]) :
                  i \in DOMAIN opts.customStopwords}

\* tokenize, choosing the raw segmenter
RawStage(opts, hp, txt) ==
    IF opts.language = "th" /\ opts.thaiDictionary # 0
    THEN dictionaryTokenize(txt, SetOf(hp[opts.thaiDictionary]))
    ELSE universalTokenize(txt)

\* The lowercase stage without its test of the language.
LowercaseStageAnyLanguage(opts, toks) ==
    IF opts.lowercase
    THEN [i \in DOMAIN toks |-> toLowerCase(toks[i])]
    ELSE toks

\* tokenize, the lowercase stage
LowercaseStage(opts, toks) ==
    IF opts.lowercase /\ opts.language # "th"
    THEN [i \in DOMAIN toks |-> toLowerCase(toks[i])]
    ELSE toks

\* The stopword stage looking the token up as it is, not in lower case.
StopwordStageRawCase(opts, sw, toks) ==
    IF opts.removeStopwords
    THEN SelectSeq(toks, LAMBDA t : t \notin sw)
    ELSE toks

\* tokenize, the stopword stage
StopwordStage(opts, sw, toks) ==
    IF opts.removeStopwords
    THEN SelectSeq(toks, LAMBDA t : toLowerCase(t) \notin sw)
    ELSE toks

\* The stemming stage without its test of the language.
StemStageAnyLanguage(opts, toks) ==
    IF opts.stemming
    THEN [i \in DOMAIN toks |-> stemToken(toks[i])]
    ELSE toks

\* tokenize, the stemming stage
StemStage(opts, toks) ==
    IF opts.stemming /\ opts.language \in StemLanguages
    THEN [i \in DOMAIN toks |-> stemToken(toks[i])]
    ELSE toks

\* The guard of tokenize without its typeof test.
InvalidTextFalsyOnly(v) == Falsy(v)

\* !text || typeof text !== "string"
InvalidText(v) == Falsy(v) \/ v.type # "string"

\* A run of tokenize: the value of its local tokens after each stage, and
\* whether it threw (a value that is no string has no matchAll method and no
\* length).
TokenizeRun(opts, sw, hp, v) ==
    IF InvalidText(v)
    THEN [threw |-> FALSE, raw |-> <<>>, folded |-> <<>>, filtered |-> <<>>,
          tokens |-> <<>>]
    ELSE IF v.type # "string"
    THEN [threw |-> TRUE, raw |-> <<>>, folded |-> <<>>, filtered |-> <<>>,
          tokens |-> <<>>]
    ELSE LET raw == RawStage(opts, hp, v.str)
             folded == LowercaseStage(opts, raw)
             filtered == StopwordStage(opts, sw, folded)
         IN  [threw |-> FALSE, raw |-> raw, folded |-> folded,
              filtered |-> filtered, tokens |-> StemStage(opts, filtered)]

\* tokens.slice(i, i + n).join(" "), i 1-based
RECURSIVE JoinWithSpace(_)
JoinWithSpace(toks) ==
    IF toks = <<>> THEN <<>>
    ELSE IF Len(toks) = 1 THEN toks[1]
    ELSE toks[1] \o <<32>> \o JoinWithSpace(Tail(toks))

\* The for loop of ngramTokenize stopping one window early.
NgramsOneShort(toks, n) ==
    [i \in 1..(Len(toks) - n) |-> JoinWithSpace(SubSeq(toks, i, i + n - 1))]

\* The for loop of ngramTokenize.
Ngrams(toks, n) ==
    [i \in 1..(Len(toks) - n + 1) |-> JoinWithSpace(SubSeq(toks, i, i + n - 1))]

\* The names of the function-valued properties a plain object inherits from
\* Object.prototype that are spelled with letters only.
ObjectPrototypeNames ==
    { <<99, 111, 110, 115, 116, 114, 117, 99, 116, 111, 114>>,       \* constructor
      <<116, 111, 83, 116, 114, 105, 110, 103>>,                     \* toString
      <<118, 97, 108, 117, 101, 79, 102>>,                           \* valueOf
      <<116, 111, 76, 111, 99, 97, 108, 101, 83, 116, 114, 105, 110, 103>>,
                                                                     \* toLocaleString
      <<104, 97, 115, 79, 119, 110, 80, 114, 111, 112, 101, 114, 116, 121>>,
                                                                     \* hasOwnProperty
      <<105, 115, 80, 114, 111, 116, 111, 116, 121, 112, 101, 79, 102>> }
                                                                     \* isPrototypeOf

\* The values a property of the frequency object holds: the number num, or
\* the string made of the text of the inherited function of that name
\* followed by ones characters "1".
Count(k) == [type |-> "number", num |-> k, ones |-> 0]
FunctionTextAndOnes(k) == [type |-> "string", num |-> 0, ones |-> k]

\* frequency[token] = (frequency[token] || 0) + 1: the property read is the
\* object's own one or else the inherited one; a number gets 1 added, a
\* function or a string gets "1" appended to its text.
FrequencyStep(frequency, tok) ==
    LET value == IF tok \in DOMAIN frequency
                 THEN IF frequency[tok].type = "number"
                      THEN Count(frequency[tok].num + 1)
                      ELSE FunctionTextAndOnes(frequency[tok].ones + 1)
                 ELSE IF tok \in ObjectPrototypeNames
                      THEN FunctionTextAndOnes(1)
                      ELSE Count(1)
    IN  [t \in DOMAIN frequency \cup {tok} |->
            IF t = tok THEN value ELSE frequency[t]]

\* The forEach of getTokenFrequency over the tokens from the i-th on.
RECURSIVE FrequencyFrom(_, _, _)
FrequencyFrom(frequency, toks, i) ==
    IF i > Len(toks) THEN frequency
    ELSE FrequencyFrom(FrequencyStep(frequency, toks[i]), toks, i + 1)

\* const frequency = {}; tokens.forEach(...)
Frequency(toks) == FrequencyFrom(<<>>, toks, 1)

----------------------------------------------------------------------------
(* Spec: one Tokenizer instance, constructed with every combination of the *)
(* options, and the calls of its public methods on texts made of a few     *)
(* words.                                                                  *)

\* The most words a text handed to the instance holds.
MaxWords == 2

\* The largest n handed to ngramTokenize.
MaxN == 3

\* The, Cats, as, and the Thai word U+0E01 U+0E32 (a consonant and a vowel)
Lexicon == { <<84, 104, 101>>, <<67, 97, 116, 115>>, <<97, 115>>, <<3585, 3634>> }

\* Texts holding a word that names an inherited property of every object.
PropertyNameTexts ==
    { <<99, 111, 110, 115, 116, 114, 117, 99, 116, 111, 114>>,       \* constructor
      <<99, 111, 110, 115, 116, 114, 117, 99, 116, 111, 114, 32,
        99, 111, 110, 115, 116, 114, 117, 99, 116, 111, 114>> }      \* twice

\* Texts of one letter: s.
OneLetterTexts == { <<115>> }

Texts ==
    {JoinWithSpace(ws) : ws \in UNION {[1..k -> Lexicon] : k \in 0..MaxWords}}
    \cup PropertyNameTexts
    \cup OneLetterTexts

TextValues == {Str(t) : t \in Texts} \cup NonStrings

\* The options object handed to the constructor; "undefined" and "" stand
\* for an option left out. A prebuilt dictionary Set is at address 1.
ConstructorArgs ==
    [lowercase : {"undefined", "true", "false"},
     removeStopwords : {"undefined", "true", "false"},
     stemming : {"undefined", "true", "false"},
     customStopwords : {<<>>, << <<67, 97, 116, 115>> >>},
     language : {"", "en", "fr", "th", "ja"},
     thaiDictionary : {0, 1}]

\* The content of a prebuilt dictionary Set.
PrebuiltSets == { <<>>, << <<3585, 3634>> >> }

\* What require("../data/stopwords/<language>.json") may give: no file, or
\* a list of words.
LanguageFiles(language) ==
    {[found |-> FALSE, words |-> <<>>]}
        \cup (IF language = "th"
              THEN {[found |-> TRUE, words |-> << <<3585, 3634>> >>]}
              ELSE {})

\* new Tokenizer(options)
Init ==
    /\ pc = "ready"
    /\ \E args \in ConstructorArgs :
          /\ options = ConstructOptions(args)
          /\ \E file \in LanguageFiles(ConstructOptions(args).language) :
                stopwords = SetupStopwords(ConstructOptions(args), file)
          /\ IF args.thaiDictionary = 0
             THEN heap = <<>>
             ELSE \E content \in PrebuiltSets : heap = <<content>>
    /\ call = NoCall
    /\ pending = 0
    /\ other = NoOther
    /\ text = <<>>
    /\ tokens = <<>>
    /\ dictionary = NullDictionary
    /\ remaining = <<>>
    /\ lastIndex = 0
    /\ token = <<>>
    /\ word = <<>>

\* tokenize(text)
Tokenize ==
    /\ pc = "ready"
    /\ pc' = "returned"
    /\ \E v \in TextValues :
          LET run == TokenizeRun(options, stopwords, heap, v)
          IN  call' = [op |-> "tokenize", arg |-> v, n |-> 0, run |-> run,
                       result |-> ArrayResult(run.tokens),
                       list |-> NoList, load |-> NoLoad]
    /\ UNCHANGED <<options, stopwords, heap, notCall>>

\* ngramTokenize(text, n): n left out is 2
NgramTokenize ==
    /\ pc = "ready"
    /\ pc' = "returned"
    /\ \E v \in TextValues, given \in 0..MaxN, leftOut \in BOOLEAN :
          LET n == IF leftOut THEN 2 ELSE given
              run == TokenizeRun(options, stopwords, heap, v)
          IN  /\ leftOut => given = 0
              /\ call' = IF InvalidText(v) \/ n < 1
                         THEN [op |-> "ngramTokenize", arg |-> v, n |-> n,
                               run |-> NoRun, result |-> ArrayResult(<<>>),
                               list |-> NoList, load |-> NoLoad]
                         ELSE [op |-> "ngramTokenize", arg |-> v, n |-> n,
                               run |-> run,
                               result |-> ArrayResult(Ngrams(run.tokens, n)),
                               list |-> NoList, load |-> NoLoad]
    /\ UNCHANGED <<options, stopwords, heap, notCall>>

\* getTokenFrequency(text)
GetTokenFrequency ==
    /\ pc = "ready"
    /\ pc' = "returned"
    /\ \E v \in TextValues :
          LET run == TokenizeRun(options, stopwords, heap, v)
          IN  call' = [op |-> "getTokenFrequency", arg |-> v, n |-> 0,
                       run |-> run,
                       result |-> ObjectResult(Frequency(run.tokens)),
                       list |-> NoList, load |-> NoLoad]
    /\ UNCHANGED <<options, stopwords, heap, notCall>>

\* String.prototype.trim
RECURSIVE TrimStart(_)
TrimStart(s) ==
    IF s # <<>> /\ IsWhiteSpace(s[1]) THEN TrimStart(Tail(s)) ELSE s

RECURSIVE TrimEnd(_)
TrimEnd(s) ==
    IF s # <<>> /\ IsWhiteSpace(s[Len(s)]) THEN TrimEnd(SliceOff(s, 1)) ELSE s

Trim(s) == TrimEnd(TrimStart(s))

\* Set.prototype.add
SetAdd(content, w) ==
    IF \E i \in DOMAIN content : content[i] = w THEN content
    ELSE Append(content, w)

\* The forEach of addThaiWords over the elements from the i-th on.
RECURSIVE AddWords(_, _, _)
AddWords(content, items, i) ==
    IF i > Len(items) THEN content
    ELSE AddWords(IF items[i].type = "string" /\ Trim(items[i].str) # <<>>
                  THEN SetAdd(content, Trim(items[i].str))
                  ELSE content,
                  items, i + 1)

\* The arguments handed to addThaiWords: a value that is no array, or an
\* array of values.
AddThaiWordsArgs ==
    { [isArray |-> FALSE, items |-> <<>>],
      [isArray |-> TRUE, items |-> <<>>],
      [isArray |-> TRUE,
       items |-> << Str(<<32, 3585, 3634, 32>>), Str(<<32>>),
                    [type |-> "null", str |-> <<>>, num |-> 0] >>] }

\* addThaiWords(words)
AddThaiWords ==
    /\ pc = "ready"
    /\ pc' = "returned"
    /\ \E words \in AddThaiWordsArgs :
          LET created == options.thaiDictionary = 0
              address == IF created THEN Len(heap) + 1
                         ELSE options.thaiDictionary
              before == IF created THEN <<>> ELSE heap[address]
              after == IF words.isArray THEN AddWords(before, words.items, 1)
                       ELSE before
          IN  /\ options' = [options EXCEPT !.thaiDictionary = address]
              /\ heap' = IF created THEN Append(heap, after)
                         ELSE [heap EXCEPT ![address] = after]
              /\ call' = [op |-> "addThaiWords", arg |-> Str(<<>>), n |-> 0,
                          run |-> NoRun, result |-> ArrayResult(<<>>),
                          list |-> words, load |-> NoLoad]
    /\ UNCHANGED <<stopwords, notCall>>

\* The caller takes the result: the instance is ready for the next call.
Return ==
    /\ pc = "returned"
    /\ pc' = "ready"
    /\ call' = NoCall
    /\ UNCHANGED <<options, stopwords, heap, notCall>>

Next ==
    \/ Tokenize
    \/ NgramTokenize
    \/ GetTokenFrequency
    \/ AddThaiWords
    \/ Return

Spec == Init /\ [][Next]_vars

----------------------------------------------------------------------------
(* SpecLife: the life of a Tokenizer instance, the calls that change its   *)
(* stopword set and its dictionary included, beside a second instance that *)
(* is constructed and then left alone.                                     *)

\* The most loadThaiDictionary calls in flight at once.
MaxPending == 1

\* data.split(/\r?\n/) from the i-th character on, line being the
\* characters of the current line read so far.
RECURSIVE SplitLines(_, _, _)
SplitLines(data, i, line) ==
    IF i > Len(data) THEN <<line>>
    ELSE IF data[i] = 13 /\ i < Len(data) /\ data[i + 1] = 10
    THEN <<line>> \o SplitLines(data, i + 2, <<>>)
    ELSE IF data[i] = 10
    THEN <<line>> \o SplitLines(data, i + 1, <<>>)
    ELSE SplitLines(data, i + 1, Append(line, data[i]))

\* words.forEach((word) => { if (word.trim()) dictionary.add(word.trim()) })
\* over the lines from the i-th on.
RECURSIVE AddLines(_, _, _)
AddLines(content, lines, i) ==
    IF i > Len(lines) THEN content
    ELSE AddLines(IF Trim(lines[i]) # <<>>
                  THEN SetAdd(content, Trim(lines[i]))
                  ELSE content,
                  lines, i + 1)

\* The forEach adding each non-blank line as it is, not trimmed.
RECURSIVE AddLinesUntrimmed(_, _, _)
AddLinesUntrimmed(content, lines, i) ==
    IF i > Len(lines) THEN content
    ELSE AddLinesUntrimmed(IF Trim(lines[i]) # <<>>
                           THEN SetAdd(content, lines[i])
                           ELSE content,
                           lines, i + 1)

\* loadDictionarySync adding the lines untrimmed.
loadDictionarySyncUntrimmed(data) ==
    AddLinesUntrimmed(<<>>, SplitLines(data, 1, <<>>), 1)

\* loadDictionarySync once readFileSync has returned data: the Set it
\* returns.
loadDictionarySync(data) == AddLines(<<>>, SplitLines(data, 1, <<>>), 1)

\* loadDictionary handing an empty dictionary to its callback when the
\* read failed.
loadDictionaryEmptyOnFailure(read) ==
    [err |-> FALSE, defined |-> TRUE,
     words |-> IF read.ok THEN AddLines(<<>>, SplitLines(read.data, 1, <<>>), 1)
               ELSE <<>>]

\* loadDictionary once the read has ended: the arguments it hands to its
\* callback, callback(err) or callback(null, dictionary).
loadDictionary(read) ==
    IF ~read.ok
    THEN [err |-> TRUE, defined |-> FALSE, words |-> <<>>]
    ELSE [err |-> FALSE, defined |-> TRUE,
          words |-> AddLines(<<>>, SplitLines(read.data, 1, <<>>), 1)]

\* What a dictionary file holds.
FileContents ==
    { <<>>,
      <<3585, 3634>>,                                  \* one word, no line end
      <<3585, 13, 10, 32, 3585, 3634, 32, 10, 10, 3585, 10, 32, 9, 10>>,
      \* U+0E01 CR LF, the word padded with spaces LF, LF, U+0E01 LF,
      \* space tab LF
      <<3585, 13, 3585, 10>> }                         \* a CR inside a line

\* What reading the file gives: a failure, or the file's content.
FileReads ==
    {[ok |-> FALSE, data |-> <<>>]}
        \cup {[ok |-> TRUE, data |-> d] : d \in FileContents}

\* The address of a new Set: one that no Tokenizer refers to once this one
\* has let go of its dictionary (a Set nobody refers to is given up).
NewAddress ==
    IF other.present /\ other.options.thaiDictionary = 1 THEN 2 ELSE 1

\* The heap with a new Set of the given content at address a.
Store(hp, a, content) ==
    IF a > Len(hp) THEN Append(hp, content) ELSE [hp EXCEPT ![a] = content]

\* loadThaiDictionarySync(filePath)
LoadThaiDictionarySync ==
    /\ pc = "ready"
    /\ pc' = "returned"
    /\ \E read \in FileReads :
          IF read.ok
          THEN LET content == loadDictionarySync(read.data)
               IN  /\ options' = [options EXCEPT !.thaiDictionary = NewAddress]
                   /\ heap' = Store(heap, NewAddress, content)
                   /\ call' = [NoCall EXCEPT
                                  !.op = "loadThaiDictionarySync",
                                  !.load = [NoLoad EXCEPT
                                               !.ok = TRUE,
                                               !.data = read.data,
                                               !.count = Len(content)]]
          ELSE /\ call' = [NoCall EXCEPT !.op = "loadThaiDictionarySync"]
               /\ UNCHANGED <<options, heap>>
    /\ UNCHANGED <<stopwords, notCall>>

\* loadThaiDictionary letting go of the dictionary as soon as the read is
\* started.
LoadThaiDictionaryClearsAtCall ==
    /\ pc = "ready"
    /\ pc' = "returned"
    /\ pending < MaxPending
    /\ pending' = pending + 1
    /\ call' = [NoCall EXCEPT !.op = "loadThaiDictionary"]
    /\ options' = [options EXCEPT !.thaiDictionary = 0]
    /\ UNCHANGED <<stopwords, heap, notLoad>>

\* loadThaiDictionary(filePath, callback) up to its return: the read is
\* started, or fs.readFile throws at once and the error goes to the
\* callback, when there is one.
LoadThaiDictionary ==
    /\ pc = "ready"
    /\ pc' = "returned"
    /\ \/ /\ pending < MaxPending
          /\ pending' = pending + 1
          /\ call' = [NoCall EXCEPT !.op = "loadThaiDictionary"]
       \/ /\ pending' = pending
          /\ \E callback \in BOOLEAN :
                call' = [NoCall EXCEPT
                            !.op = "loadThaiDictionary callback",
                            !.load = [NoLoad EXCEPT !.callback = callback,
                                                    !.err = TRUE]]
    /\ UNCHANGED <<options, stopwords, heap, notLoad>>

\* The read of a loadThaiDictionary call ends and its callbacks run; the
\* caller's callback, given or left out at the call, is looked at only now.
LoadComplete ==
    /\ pc = "ready"
    /\ pc' = "returned"
    /\ pending > 0
    /\ pending' = pending - 1
    /\ \E read \in FileReads, callback \in BOOLEAN :
          LET loaded == loadDictionary(read)
          IN  /\ IF ~loaded.err
                 THEN /\ options' = [options EXCEPT
                                        !.thaiDictionary = NewAddress]
                      /\ heap' = Store(heap, NewAddress, loaded.words)
                 ELSE UNCHANGED <<options, heap>>
              /\ call' = [NoCall EXCEPT
                             !.op = "loadThaiDictionary callback",
                             !.load = [ok |-> read.ok, data |-> read.data,
                                       threw |-> FALSE,
                                       callback |-> callback,
                                       err |-> loaded.err,
                                       count |-> IF callback /\ loaded.defined
                                                 THEN Len(loaded.words)
                                                 ELSE 0]]
    /\ UNCHANGED <<stopwords, notLoad>>

\* The arguments handed to addStopwords and removeStopwords: a value that
\* is no array, or the array ["Dogs", 5, "THE"].
StopwordLists ==
    { NoList,
      [isArray |-> TRUE,
       items |-> << Str(<<68, 111, 103, 115>>),
                    [type |-> "number", str |-> <<>>, num |-> 5],
                    Str(<<84, 72, 69>>) >>] }

\* The string elements of an array argument as they are given.
StringsAsGiven(list) ==
    IF list.isArray
    THEN {list.items[i].str :
              i \in {j \in DOMAIN list.items : list.items[j].type = "string"}}
    ELSE {}

\* The lowercase forms of the string elements of an array argument.
LowercaseStrings(list) ==
    IF list.isArray
    THEN {toLowerCase(list.items[i].str) :
              i \in {j \in DOMAIN list.items : list.items[j].type = "string"}}
    ELSE {}

\* addStopwords(stopwords)
AddStopwords ==
    /\ pc = "ready"
    /\ pc' = "returned"
    /\ \E list \in StopwordLists :
          /\ stopwords' = stopwords \cup LowercaseStrings(list)
          /\ call' = [NoCall EXCEPT !.op = "addStopwords", !.list = list]
    /\ UNCHANGED <<options, heap, notCall>>

\* removeStopwords(stopwords)
RemoveStopwords ==
    /\ pc = "ready"
    /\ pc' = "returned"
    /\ \E list \in StopwordLists :
          /\ stopwords' = stopwords \ LowercaseStrings(list)
          /\ call' = [NoCall EXCEPT !.op = "removeStopwords", !.list = list]
    /\ UNCHANGED <<options, heap, notCall>>

\* The options the instances of SpecLife are constructed with.
LifeArgs ==
    [lowercase : {"undefined"},
     removeStopwords : {"true"},
     stemming : {"undefined"},
     customStopwords : {<<>>, << <<67, 97, 116, 115>> >>},
     language : {"", "th"},
     thaiDictionary : {0, 1}]

\* The options of the second instance.
OtherArgs ==
    [lowercase : {"undefined"},
     removeStopwords : {"undefined"},
     stemming : {"undefined"},
     customStopwords : {<<>>},
     language : {"th"},
     thaiDictionary : {0, 1}]

\* new Tokenizer(options), and maybe a second new Tokenizer(options2); the
\* prebuilt Set at address 1 is the one Set the caller hands to every
\* constructor called with a dictionary, and two instances of one language
\* get the same stopword file.
InitLife ==
    /\ pc = "ready"
    /\ \E args \in LifeArgs :
          /\ options = ConstructOptions(args)
          /\ \E file \in LanguageFiles(ConstructOptions(args).language) :
                /\ stopwords = SetupStopwords(ConstructOptions(args), file)
                /\ \/ other = NoOther
                   \/ \E args2 \in OtherArgs :
                         \E file2 \in LanguageFiles(ConstructOptions(args2).language) :
                            /\ args2.language = args.language => file2 = file
                            /\ other = [present |-> TRUE,
                                        options |-> ConstructOptions(args2),
                                        stopwords |->
                                            SetupStopwords(ConstructOptions(args2),
                                                           file2)]
    /\ IF options.thaiDictionary = 1
          \/ (other.present /\ other.options.thaiDictionary = 1)
       THEN \E content \in PrebuiltSets : heap = <<content>>
       ELSE heap = <<>>
    /\ call = NoCall
    /\ pending = 0
    /\ text = <<>>
    /\ tokens = <<>>
    /\ dictionary = NullDictionary
    /\ remaining = <<>>
    /\ lastIndex = 0
    /\ token = <<>>
    /\ word = <<>>

NextLife ==
    \/ Tokenize
    \/ AddThaiWords
    \/ AddStopwords
    \/ RemoveStopwords
    \/ LoadThaiDictionarySync
    \/ LoadThaiDictionary
    \/ LoadComplete
    \/ Return

SpecLife == InitLife /\ [][NextLife]_vars

----------------------------------------------------------------------------
(* Claims about the Tokenizer, checked under Spec.                         *)

\* The last call ran tokenize (directly, or from ngramTokenize or
\* getTokenFrequency) on a text it accepts.
Ran ==
    /\ call.op \in {"tokenize", "ngramTokenize", "getTokenFrequency"}
    /\ call.arg.type = "string"
    /\ call.arg.str # <<>>
    /\ call.op = "ngramTokenize" => call.n >= 1

\* The words of the instance's dictionary; none when it has no dictionary.
DictionaryWords ==
    IF options.thaiDictionary = 0 THEN <<>> ELSE heap[options.thaiDictionary]

\* a is b with some of its elements left out, the others in their order.
RECURSIVE IsSubsequence(_, _)
IsSubsequence(a, b) ==
    IF a = <<>> THEN TRUE
    ELSE IF b = <<>> THEN FALSE
    ELSE IF a[1] = b[1] THEN IsSubsequence(Tail(a), Tail(b))
    ELSE IsSubsequence(a, Tail(b))

\* t occurs in s as a run of consecutive characters.
IsSubstring(t, s) ==
    \E i \in 1..(Len(s) - Len(t) + 1) : SubSeq(s, i, i + Len(t) - 1) = t

Lowered(t) == [i \in DOMAIN t |-> IF t[i] \in 65..90 THEN t[i] + 32 ELSE t[i]]

\* The k-th smallest element of a set of numbers.
KthOf(S, k) == CHOOSE i \in S : Cardinality({j \in S : j <= i}) = k

\* C2: for language "th", tokenize segments with the dictionary when it is
\* not empty, and with the heuristic segmenter simpleTokenize when the
\* dictionary is empty or absent.
C2_ThaiSegmenterByDictionary ==
    (Ran /\ options.language = "th") =>
        IF DictionaryWords # <<>>
        THEN call.run.raw = DictLoop(call.arg.str, <<>>, DictionaryWords)
        ELSE call.run.raw = simpleTokenize(call.arg.str)

\* The last call was handed a text that is empty or no string.
InvalidCall ==
    /\ call.op \in {"tokenize", "ngramTokenize", "getTokenFrequency"}
    /\ call.arg.type # "string" \/ call.arg.str = <<>>

\* C5, amended: on a text that is empty or no string, with every
\* configuration and dictionary, no entry point throws; tokenize and
\* ngramTokenize (for every n) return the empty array, and
\* getTokenFrequency returns the empty object {}: no token is counted.
C5_InvalidTextEmptyResult ==
    InvalidCall =>
        /\ ~call.run.threw
        /\ call.op \in {"tokenize", "ngramTokenize"} =>
               /\ call.result.kind = "array"
               /\ call.result.items = <<>>
        /\ call.op = "getTokenFrequency" =>
               /\ call.result.kind = "object"
               /\ DOMAIN call.result.counts = {}

\* C5 as stated: every entry point, getTokenFrequency too, returns the
\* empty array [].
C5_InvalidTextEmptyArray ==
    InvalidCall =>
        /\ ~call.run.threw
        /\ call.result.kind = "array"
        /\ call.result.items = <<>>

\* C5 witness: getTokenFrequency was handed the number 5 on a "th" instance
\* that has a dictionary.
C5_Witness ==
    /\ call.op = "getTokenFrequency"
    /\ call.arg.type = "number" /\ call.arg.num = 5
    /\ options.language = "th"
    /\ DictionaryWords # <<>>
    /\ call.result.kind = "object"

\* C6: with removeStopwords enabled the stopword stage keeps exactly the
\* tokens whose lowercase form is not in the stopword set, unchanged and in
\* order, whether or not case folding ran; the returned list is a
\* subsequence of what tokenize returns with removal disabled.
C6_StopwordFilter ==
    (Ran /\ options.removeStopwords) =>
        LET before == call.run.folded
            after == call.run.filtered
            kept == {i \in DOMAIN before : Lowered(before[i]) \notin stopwords}
            unfiltered == TokenizeRun([options EXCEPT !.removeStopwords = FALSE],
                                      stopwords, heap, call.arg).tokens
        IN  /\ Len(after) = Cardinality(kept)
            /\ \A k \in DOMAIN after : after[k] = before[KthOf(kept, k)]
            /\ IsSubsequence(call.run.tokens, unfiltered)

\* C6 witness: with lowercase disabled, The Cats lost The and kept Cats
\* with its capital.
C6_Witness ==
    /\ call.op = "tokenize"
    /\ options.removeStopwords /\ ~options.lowercase /\ ~options.stemming
    /\ call.arg = Str(<<84, 104, 101, 32, 67, 97, 116, 115>>)
    /\ call.result.items = << <<67, 97, 116, 115>> >>

\* The stemming stage runs.
StemmingRuns ==
    options.stemming /\ options.language \in {"en", "es", "fr", "it", "pt", "de", "nl"}

\* C7, amended: with removeStopwords enabled no token that leaves the
\* stopword stage has its lowercase form in the stopword set, and so no
\* token of the returned list has when the stemming stage does not run; a
\* stem may be a stopword (as is stemmed to a).
C7_NoStopwordAfterStopwordStage ==
    (Ran /\ options.removeStopwords) =>
        /\ \A i \in DOMAIN call.run.filtered :
               Lowered(call.run.filtered[i]) \notin stopwords
        /\ ~StemmingRuns =>
               \A i \in DOMAIN call.run.tokens :
                   Lowered(call.run.tokens[i]) \notin stopwords

\* C7 as stated: with removeStopwords enabled, stemming or not, no token of
\* the returned list has its lowercase form in the stopword set.
C7_NoStopwordReturned ==
    (Ran /\ options.removeStopwords) =>
        \A i \in DOMAIN call.run.tokens :
            Lowered(call.run.tokens[i]) \notin stopwords

\* C7 witness: with removal and stemming enabled, The Cats came back as cat.
C7_Witness ==
    /\ call.op = "tokenize"
    /\ options.removeStopwords /\ options.stemming /\ options.language = "en"
    /\ call.arg = Str(<<84, 104, 101, 32, 67, 97, 116, 115>>)
    /\ call.result.items = << <<99, 97, 116>> >>

\* C8: the lowercase stage turns every raw token into its lowercase form
\* exactly when lowercase is enabled and the language is not "th"; for
\* "th", with or without a dictionary, every returned token is a raw token
\* and has the case it has in the text.
C8_CaseFolding ==
    Ran =>
        /\ IF options.lowercase /\ options.language # "th"
           THEN /\ Len(call.run.folded) = Len(call.run.raw)
                /\ \A i \in DOMAIN call.run.raw :
                       call.run.folded[i] = Lowered(call.run.raw[i])
           ELSE call.run.folded = call.run.raw
        /\ options.language = "th" =>
               /\ IsSubsequence(call.run.tokens, call.run.raw)
               /\ \A i \in DOMAIN call.run.tokens :
                      IsSubstring(call.run.tokens[i], call.arg.str)

\* C8 witness: a "th" instance with lowercase enabled returned The, with
\* its capital, from a text that also holds a Thai word.
C8_Witness ==
    /\ call.op = "tokenize"
    /\ options.language = "th" /\ options.lowercase
    /\ call.arg = Str(<<3585, 3634, 32, 84, 104, 101>>)
    /\ call.result.items = << <<3585, 3634>>, <<84, 104, 101>> >>

\* C9: unless stemming is enabled and the language is one of en, es, fr,
\* it, pt, de, nl, the tokens leave tokenize exactly as the stopword stage
\* produced them.
C9_StemmingOnlyWhitelisted ==
    (Ran /\ ~StemmingRuns) => call.run.tokens = call.run.filtered

\* C9 witness: with stemming enabled and language "ja", Cats came back as
\* cats, not as its stem cat.
C9_Witness ==
    /\ call.op = "tokenize"
    /\ options.stemming /\ options.language = "ja"
    /\ call.arg = Str(<<67, 97, 116, 115>>)
    /\ call.result.items = << <<99, 97, 116, 115>> >>

\* The words of ws, in order, with one space between neighbours.
RECURSIVE Glued(_)
Glued(ws) ==
    IF ws = <<>> THEN <<>>
    ELSE IF Len(ws) = 1 THEN ws[1]
    ELSE Glued(SubSeq(ws, 1, Len(ws) - 1)) \o <<32>> \o ws[Len(ws)]

\* C13: with L the number of tokens tokenize returns for the text,
\* ngramTokenize(text, n) for n >= 1 returns, in left-to-right order, the
\* windows of n consecutive tokens, each joined by single spaces: L - n + 1
\* entries when n <= L and none when n > L; for n < 1 it returns the empty
\* list.
C13_NgramWindows ==
    (call.op = "ngramTokenize") =>
        LET toks == TokenizeRun(options, stopwords, heap, call.arg).tokens
            L == Len(toks)
            n == call.n
            out == call.result.items
        IN  /\ call.result.kind = "array"
            /\ n < 1 => out = <<>>
            /\ n >= 1 =>
                  /\ Len(out) = IF n <= L THEN L - n + 1 ELSE 0
                  /\ \A i \in DOMAIN out :
                         out[i] = Glued([k \in 1..n |-> toks[i + k - 1]])

\* C13 witness: ngramTokenize("The Cats", 2) returned the one window of its
\* two lowercased tokens.
C13_Witness ==
    /\ call.op = "ngramTokenize"
    /\ call.n = 2
    /\ call.arg = Str(<<84, 104, 101, 32, 67, 97, 116, 115>>)
    /\ call.result.items = << <<116, 104, 101, 32, 99, 97, 116, 115>> >>

\* C14: getTokenFrequency(text) maps each distinct token of tokenize(text),
\* and nothing else, to the integer number of its occurrences in that list
\* (at least 1), whatever the token is spelled like.
C14_FrequencyCounts ==
    (call.op = "getTokenFrequency" /\ Ran) =>
        LET toks == call.run.tokens
            counts == call.result.counts
        IN  /\ DOMAIN counts = {toks[i] : i \in DOMAIN toks}
            /\ \A t \in DOMAIN counts :
                   /\ counts[t].type = "number"
                   /\ counts[t].num = Cardinality({i \in DOMAIN toks : toks[i] = t})
                   /\ counts[t].num >= 1

----------------------------------------------------------------------------
(* Claims about the stopword set and the dictionary of an instance,        *)
(* checked under SpecLife.                                                 *)

\* This step is a dictionary load that ends with the read having failed.
FailedLoad ==
    /\ call' # call
    /\ call'.op \in {"loadThaiDictionarySync", "loadThaiDictionary callback"}
    /\ ~call'.load.ok

C15_Step ==
    FailedLoad =>
        /\ ~call'.load.threw
        /\ call'.load.count = 0
        /\ (call'.op = "loadThaiDictionary callback" /\ call'.load.callback)
              => call'.load.err
        /\ options'.thaiDictionary = options.thaiDictionary
        /\ heap' = heap

\* C15: when reading the dictionary file fails, loadThaiDictionarySync
\* returns 0 without throwing, loadThaiDictionary hands the error and the
\* count 0 to its callback, and the dictionary of the instance is what it
\* was before the call: the same Set with the same words, or still none.
C15_FailedLoadLeavesDictionary == [][C15_Step]_vars

\* C15 witness: the callback of a loadThaiDictionary call got the error of
\* a failed read while the instance held the two words of an earlier load.
C15_Witness ==
    /\ call.op = "loadThaiDictionary callback"
    /\ ~call.load.ok /\ call.load.err /\ call.load.callback
    /\ call.load.count = 0
    /\ DictionaryWords = << <<3585>>, <<3585, 3634>> >>

\* s without the white space at its two ends.
Stripped(s) ==
    LET inked == {i \in DOMAIN s : ~IsWhiteSpace(s[i])}
    IN  IF inked = {} THEN <<>>
        ELSE SubSeq(s, MinOf(inked), MaxOf(inked))

\* The distinct, trimmed, non-blank lines of a file, a line ending at each
\* line feed (a carriage return before the line feed is white space at the
\* end of the line) and at the end of the file.
WordsOfFile(data) ==
    LET feeds == {p \in DOMAIN data : data[p] = 10}
        starts == {1} \cup {p + 1 : p \in feeds}
        lineAt(s) == SubSeq(data, s,
                            IF \E p \in feeds : p >= s
                            THEN MinOf({p \in feeds : p >= s}) - 1
                            ELSE Len(data))
    IN  {Stripped(lineAt(s)) : s \in starts} \ {<<>>}

\* The last call was a load whose read gave the file's content.
Loaded ==
    /\ call.op \in {"loadThaiDictionarySync", "loadThaiDictionary callback"}
    /\ call.load.ok

\* C16: for the same file content the blocking and the non-blocking load
\* install the same dictionary and report the same count: the set of the
\* distinct, trimmed, non-blank lines of the file split on CR?LF, and the
\* size of that set.
C16_LoadsAgree ==
    Loaded =>
        /\ options.thaiDictionary # 0
        /\ Range(DictionaryWords) = WordsOfFile(call.load.data)
        /\ Len(DictionaryWords) = Cardinality(WordsOfFile(call.load.data))
        /\ (call.op = "loadThaiDictionarySync" \/ call.load.callback)
              => call.load.count = Cardinality(WordsOfFile(call.load.data))
        /\ call.op = "loadThaiDictionarySync"
              => DictionaryWords
                     = loadDictionary([ok |-> TRUE, data |-> call.load.data]).words
        /\ call.op = "loadThaiDictionary callback"
              => DictionaryWords = loadDictionarySync(call.load.data)

\* C16 witness: a non-blocking load of the file with CR LF, padded,
\* repeated and blank lines ended, and its callback got the count 2.
C16_Witness ==
    /\ call.op = "loadThaiDictionary callback"
    /\ call.load.ok /\ call.load.callback
    /\ Len(call.load.data) > 2
    /\ call.load.count = 2
    /\ DictionaryWords = << <<3585>>, <<3585, 3634>> >>

C17_Step == Range(DictionaryWords) \subseteq Range(DictionaryWords')

\* C17: the dictionary of an instance never shrinks: across every public
\* operation (addThaiWords, loadThaiDictionarySync, loadThaiDictionary and
\* its completion, tokenize) every word in the dictionary before the
\* operation is in it afterwards.
C17_DictionaryNeverShrinks == [][C17_Step]_vars

\* What can be seen of the second instance when the heap is hp: its
\* stopword set, its dictionary and what its tokenize returns for each text.
OtherView(hp) ==
    [stopwords |-> other.stopwords,
     hasDictionary |-> other.options.thaiDictionary # 0,
     words |-> IF other.options.thaiDictionary = 0 THEN <<>>
               ELSE hp[other.options.thaiDictionary],
     results |-> [v \in TextValues |->
                     TokenizeRun(other.options, other.stopwords, hp, v).tokens]]

C18_Step ==
    other.present => (other' = other /\ OtherView(heap') = OtherView(heap))

\* C18: instances share no mutable state: every operation on one instance
\* (addStopwords, removeStopwords, addThaiWords, a dictionary load) leaves
\* the stopword set, the dictionary and the tokenize results of another
\* instance unchanged, also when both were given the same prebuilt set.
C18_InstancesShareNothing == [][C18_Step]_vars

\* The lowercase forms of the strings of an array argument; none for an
\* argument that is no array.
LoweredStringsOf(list) ==
    {Lowered(list.items[i].str) :
        i \in {j \in DOMAIN list.items :
                  list.isArray /\ list.items[j].type = "string"}}

LoweredCustom ==
    {Lowered(options.customStopwords[i]) : i \in DOMAIN options.customStopwords}

C19_Updates ==
    /\ call'.op = "addStopwords"
          => stopwords' = stopwords \cup LoweredStringsOf(call'.list)
    /\ call'.op = "removeStopwords"
          => stopwords' = stopwords \ LoweredStringsOf(call'.list)
    /\ call'.op \notin {"addStopwords", "removeStopwords"}
          => stopwords' = stopwords

C19_Lowercase == \A w \in stopwords : Lowered(w) = w

\* The set the instance was constructed with, when the stopword file of its
\* language gave the words languageWords.
Constructed(languageWords) ==
    BaseStopwords \cup LoweredCustom
        \cup {Lowered(languageWords[i]) : i \in DOMAIN languageWords}

\* The words a call of addStopwords or removeStopwords may have inserted or
\* deleted.
Handed == UNION {LoweredStringsOf(list) : list \in StopwordLists}

\* The stopword set differs from the set s only in words handed to
\* addStopwords or removeStopwords.
UpdatedFrom(s) ==
    /\ stopwords \ s \subseteq Handed
    /\ s \ stopwords \subseteq Handed

C19_FromBaseAndCustom == UpdatedFrom(Constructed(<<>>))

\* The words of the language's stopword file that setupStopwords took: none
\* for en or when the file does not load.
C19_LanguageLists ==
    {IF options.language # "en" /\ file.found THEN file.words ELSE <<>> :
        file \in LanguageFiles(options.language)}

C19_ConstructedWithLanguageList ==
    \E languageWords \in C19_LanguageLists :
        stopwords = Constructed(languageWords)

C19_FromBaseLanguageAndCustom ==
    \E languageWords \in C19_LanguageLists :
        UpdatedFrom(Constructed(languageWords))

\* C19 as stated: the stopword set is the base English list plus the
\* lowercased custom entries, updated in call order: it holds lowercase
\* strings only, addStopwords inserts and removeStopwords deletes the
\* lowercase form of each string element, and nothing else changes it.
C19_StopwordSetBaseAndCustom ==
    [][C19_Updates]_vars /\ []C19_Lowercase /\ []C19_FromBaseAndCustom

\* C19, amended: after construction the stopword set is the base English
\* list plus, for a language other than en whose stopword file loads, the
\* lowercased words of that file, plus the lowercased custom entries; from
\* then on it holds lowercase strings only and changes in call order,
\* addStopwords inserting and removeStopwords deleting the lowercase form
\* of each string element (base words included), a non-array argument or a
\* non-string element changing nothing.
C19_StopwordSetWithLanguageList ==
    /\ C19_ConstructedWithLanguageList
    /\ [][C19_Updates]_vars
    /\ []C19_Lowercase
    /\ []C19_FromBaseLanguageAndCustom

\* C19 witness: removeStopwords(["Dogs", 5, "THE"]) has deleted the base
\* word the from the set of an instance constructed with a custom entry.
C19_Witness ==
    /\ call.op = "removeStopwords"
    /\ call.list.isArray
    /\ <<116, 104, 101>> \notin stopwords
    /\ <<99, 97, 116, 115>> \in stopwords
    /\ <<97>> \in stopwords

\* s without the run of ASCII spaces at its head.
WithoutLeadingSpaces(s) ==
    LET others == {i \in DOMAIN s : s[i] # 32}
    IN  IF others = {} THEN <<>> ELSE SubSeq(s, MinOf(others), Len(s))

\* txt is the tokens in their order, each followed by a run of ASCII
\* spaces (maybe empty) that stops where the next token starts.
RECURSIVE TokensAndSpaceRuns(_, _)
TokensAndSpaceRuns(txt, toks) ==
    IF toks = <<>> THEN txt = <<>>
    ELSE /\ toks[1] # <<>>
         /\ Len(txt) >= Len(toks[1])
         /\ SubSeq(txt, 1, Len(toks[1])) = toks[1]
         /\ TokensAndSpaceRuns(
                WithoutLeadingSpaces(SubSeq(txt, Len(toks[1]) + 1, Len(txt))),
                Tail(toks))

\* The dictionary loop has segmented the whole text.
Segmented ==
    /\ pc = "done"
    /\ text # <<>>
    /\ ~dictionary.isNull /\ Len(dictionary.words) > 0

Orders(s) ==
    {[i \in DOMAIN s |-> s[f[i]]] :
        f \in {g \in [DOMAIN s -> DOMAIN s] :
                  \A i, j \in DOMAIN s : g[i] = g[j] => i = j}}

C21_Iteration ==
    (pc = "loop" /\ pc' = "loop") =>
        \A inserted \in Orders(dictionary.words) :
            DictIteration(remaining, tokens, inserted)
                = [tokens |-> tokens', remaining |-> remaining']

C21_Result ==
    Segmented =>
        \A inserted \in Orders(dictionary.words) :
            dictionaryTokenize(text, SetOf(inserted)) = tokens

\* C21: dictionary segmentation depends only on the text and on the set of
\* words: a dictionary holding the same words inserted in any other order
\* gives the same token at every iteration and the same token list, also
\* when several entries are prefixes of the remaining text.
C21_InsertionOrderIrrelevant == [][C21_Iteration]_vars /\ []C21_Result

\* C21 witness: abab was segmented with the words inserted as abc, ab, a;
\* ab and a both match at each position.
C21_Witness ==
    /\ Segmented
    /\ text = <<97, 98, 97, 98>>
    /\ dictionary.words = << <<97, 98, 99>>, <<97, 98>>, <<97>> >>
    /\ tokens = << <<97, 98>>, <<97, 98>> >>

\* No entry of the dictionary holds a space.
NoSpaceInEntries ==
    \A entry \in Range(dictionary.words) : 32 \notin Range(entry)

C23_DictionaryOnlyForThai ==
    options.thaiDictionary # 0 => options.language = "th"

\* The configuration held in an options object.
Configuration(opts) ==
    [lowercase |-> opts.lowercase,
     removeStopwords |-> opts.removeStopwords,
     stemming |-> opts.stemming,
     language |-> opts.language,
     customStopwords |-> opts.customStopwords]

\* The configuration of an instance constructed with args: an option left
\* out takes its default.
ConfigurationFor(args) ==
    [lowercase |-> args.lowercase # "false",
     removeStopwords |-> args.removeStopwords = "true",
     stemming |-> args.stemming = "true",
     language |-> IF args.language = "" THEN "en" ELSE args.language,
     customStopwords |-> args.customStopwords]

C24_Frame ==
    /\ Configuration(options') = Configuration(options)
    /\ Configuration(other.options') = Configuration(other.options)

C24_AsConstructed ==
    /\ \E args \in LifeArgs : Configuration(options) = ConfigurationFor(args)
    /\ other.present =>
           \E args \in OtherArgs :
               Configuration(other.options) = ConfigurationFor(args)

\* C24: the configuration is immutable after construction: no public
\* operation changes lowercase, removeStopwords, stemming, language or
\* customStopwords, and options left out at construction hold the defaults
\* lowercase true, removeStopwords false, stemming false, language "en",
\* customStopwords empty.
C24_ConfigurationImmutable == [][C24_Frame]_vars /\ []C24_AsConstructed

\* C24 witness: a load has replaced the dictionary of an instance
\* constructed without a language, beside a second instance constructed
\* without removeStopwords; both hold the defaults.
C24_Witness ==
    /\ call.op = "loadThaiDictionarySync" /\ call.load.ok
    /\ options.language = "en" /\ options.lowercase /\ ~options.stemming
    /\ other.present /\ ~other.options.removeStopwords
    /\ other.options.customStopwords = <<>>

\* A step of a non-blocking load and of the tokenize calls around it: the
\* call starts one read and leaves the dictionary alone; a tokenize call
\* while a read is under way runs on the dictionary the instance holds and
\* changes nothing; a read
\* ends at most once, and its end either installs all the words of the
\* file at once and hands their number to the callback, or, on an error,
\* leaves the dictionary alone.
C25_Step ==
    /\ (call' # call /\ call'.op = "loadThaiDictionary") =>
           /\ pending' = pending + 1
           /\ options' = options /\ heap' = heap
    /\ (call' # call /\ call'.op = "tokenize" /\ pending > 0) =>
           /\ call'.run = TokenizeRun(options, stopwords, heap, call'.arg)
           /\ options' = options /\ heap' = heap /\ pending' = pending
    /\ pending' # pending =>
           \/ call'.op = "loadThaiDictionary"
           \/ /\ call'.op = "loadThaiDictionary callback"
              /\ pending' = pending - 1
              /\ IF call'.load.err
                 THEN options' = options /\ heap' = heap
                 ELSE /\ options'.thaiDictionary # 0
                      /\ Range(DictionaryWords') = WordsOfFile(call'.load.data)
                      /\ call'.load.callback =>
                             call'.load.count = Len(DictionaryWords')

\* C25: a non-blocking load switches the dictionary atomically at
\* completion: after loadThaiDictionary is called every tokenize call that
\* runs before the read completes uses the dictionary as it was; no
\* tokenize call sees a partly filled dictionary; and when the callback is
\* invoked without error (once per call) the new dictionary is already
\* installed and the callback receives its size.
C25_AtomicSwitch == [][C25_Step]_vars /\ [](pending \in 0..MaxPending)

\* C25 witness: the read of a file of five lines has ended without error on
\* a "th" instance, the two words of the file are the dictionary and the
\* callback received 2.
C25_Witness ==
    /\ call.op = "loadThaiDictionary callback"
    /\ call.load.ok /\ call.load.callback /\ ~call.load.err
    /\ Len(call.load.data) > 4
    /\ call.load.count = 2
    /\ options.language = "th"
    /\ DictionaryWords = << <<3585>>, <<3585, 3634>> >>
    /\ pending = 0

----------------------------------------------------------------------------
(* Claims about simpleTokenize, checked under SpecSimple.                  *)

\* The Thai block U+0E00..U+0E7F, its vowels U+0E30..U+0E3A and
\* U+0E40..U+0E45, and its tone marks U+0E47..U+0E4E.
ThaiBlock == 3584..3711
ThaiVowels == (3632..3642) \cup (3648..3653)
ThaiToneMarks == 3655..3662

\* The pass closes a token after the k-th character of txt: a character
\* of the block that is neither vowel nor tone mark, before a vowel.
ClosesAfter(txt, k) ==
    /\ k < Len(txt)
    /\ txt[k] \in ThaiBlock \ (ThaiVowels \cup ThaiToneMarks)
    /\ txt[k + 1] \in ThaiVowels

\* The pieces <<from, to>> of txt the pass emits: a character outside the
\* block that is not white space, alone; and a run of characters of the
\* block that starts at the start of the text, after a character outside
\* the block or after a closing, ends at the end of the text, before a
\* character outside the block or at a closing, and has no closing inside.
Pieces(txt) ==
    {p \in (DOMAIN txt) \X (DOMAIN txt) :
        \/ /\ p[1] = p[2]
           /\ txt[p[1]] \notin ThaiBlock
           /\ ~IsWhiteSpace(txt[p[1]])
        \/ /\ p[1] <= p[2]
           /\ \A k \in p[1]..p[2] : txt[k] \in ThaiBlock
           /\ p[1] = 1 \/ txt[p[1] - 1] \notin ThaiBlock
                      \/ ClosesAfter(txt, p[1] - 1)
           /\ p[2] = Len(txt) \/ txt[p[2] + 1] \notin ThaiBlock
                             \/ ClosesAfter(txt, p[2])
           /\ \A k \in p[1]..(p[2] - 1) : ~ClosesAfter(txt, k)}

\* The pieces of txt from left to right, as strings.
PassOf(txt) ==
    LET ps == Pieces(txt)
        nth(k) == CHOOSE p \in ps :
                      Cardinality({q \in ps : q[1] < p[1]}) = k - 1
    IN  [k \in 1..Cardinality(ps) |-> SubSeq(txt, nth(k)[1], nth(k)[2])]

\* C26: simpleTokenize equals the single left-to-right pass: a space or a
\* character outside the Thai block flushes the pending token and, if it
\* is not white space, is emitted as its own one-character token;
\* characters of the block accumulate; when the current character is
\* neither vowel nor tone mark and the next one is a vowel the pending
\* token is closed after the current character; the end of input flushes
\* the pending token. No emitted token is empty.
C26_SimpleIsThePass ==
    /\ \A k \in DOMAIN tokens : tokens[k] # <<>>
    /\ pc = "done" => tokens = PassOf(text)
    /\ pc = "done" => tokens = simpleTokenize(text)

\* C26 witness: consonant, tone mark, vowel, consonant is one token (the
\* tone mark before the vowel closes nothing), and consonant, vowel, a,
\* tab gives the consonant, the vowel and a.
C26_Witness ==
    /\ pc = "done"
    /\ \/ text = <<3585, 3656, 3634, 3585>> /\ tokens = <<text>>
       \/ /\ text = <<3585, 3634, 97, 9>>
          /\ tokens = << <<3585>>, <<3634>>, <<97>> >>

----------------------------------------------------------------------------
(* Termination of dictionaryTokenize, checked under SpecDictRuns.          *)

\* An iteration of the while loop emits one token and leaves a strictly
\* shorter end of the remaining text.
C27_Progress ==
    (pc = "loop" /\ pc' = "loop") =>
        /\ Len(remaining') < Len(remaining)
        /\ remaining' = SubSeq(remaining,
                               Len(remaining) - Len(remaining') + 1,
                               Len(remaining))
        /\ Len(tokens') = Len(tokens) + 1

\* The loop goes on exactly while text remains, and the tokens emitted so
\* far are no more than the characters consumed so far.
C27_Bounded ==
    /\ pc = "loop" =>
           /\ Len(tokens) + Len(remaining) <= Len(text)
           /\ (remaining = <<>>) = ENABLED DictReturn
           /\ (remaining # <<>>) = ENABLED DictStep
    /\ pc = "done" => Len(tokens) <= Len(text)
    /\ Segmented => remaining = <<>>

\* C27: dictionary segmentation terminates for every text and every
\* dictionary, one holding the empty string or entries with spaces
\* included: every iteration of the loop removes at least one character
\* from the remaining text, the loop stops when the remaining text is
\* empty, and it emits at most as many tokens as the text has characters.
C27_Terminates ==
    [][C27_Progress]_vars /\ []C27_Bounded /\ <>(pc = "done")

\* C27 witness: with the dictionary {"", "cd"} the text "cdcd" has been
\* segmented into cd, cd; with {"b c", "b"} the text "b cb" into "b c", b.
C27_Witness ==
    /\ Segmented
    /\ \/ /\ dictionary.words = << <<>>, <<99, 100>> >>
          /\ text = <<99, 100, 99, 100>>
          /\ tokens = << <<99, 100>>, <<99, 100>> >>
       \/ /\ dictionary.words = << <<98, 32, 99>>, <<98>> >>
          /\ text = <<98, 32, 99, 98>>
          /\ tokens = << <<98, 32, 99>>, <<98>> >>

\* Every surrogate code unit of s is one half of a pair: a high surrogate
\* is followed by a low one and a low surrogate follows a high one.
WellFormed(s) ==
    \A i \in DOMAIN s :
        /\ IsHighSurrogate(s[i]) => i < Len(s) /\ IsLowSurrogate(s[i + 1])
        /\ IsLowSurrogate(s[i]) => i > 1 /\ IsHighSurrogate(s[i - 1])

\* C28: every segmenter works on whole code points: for a text whose
\* characters of two UTF-16 code units are whole, no token handed out by
\* the heuristic segmenter's one-character boundary emission is one half
\* of such a character (no token starts with the second half of a pair or
\* ends with the first).
C28_WholeCodePoints ==
    WellFormed(text) =>
        \A k \in DOMAIN tokens :
            tokens[k] # <<>> =>
                /\ ~IsLowSurrogate(tokens[k][1])
                /\ ~IsHighSurrogate(tokens[k][Len(tokens[k])])

----------------------------------------------------------------------------
(* Claims about addThaiWords and tokenize, checked under Spec.             *)

\* The trimmed forms of the non-blank string elements of an array
\* argument; none for an argument that is no array.
ValidWords(list) ==
    IF list.isArray
    THEN {Trim(list.items[i].str) :
              i \in {j \in DOMAIN list.items :
                        /\ list.items[j].type = "string"
                        /\ Trim(list.items[j].str) # <<>>}}
    ELSE {}

\* A step of addThaiWords: with no valid word every tokenize call returns
\* after it what it returned before it; with valid words the dictionary
\* gains exactly their trimmed forms.
C29_Step ==
    (call' # call /\ call'.op = "addThaiWords") =>
        /\ ValidWords(call'.list) = {} =>
               \A v \in TextValues :
                   TokenizeRun(options', stopwords', heap', v).tokens
                       = TokenizeRun(options, stopwords, heap, v).tokens
        /\ Range(heap'[options'.thaiDictionary])
               = Range(DictionaryWords) \cup ValidWords(call'.list)

\* C29: a call to addThaiWords that adds no word (an argument that is no
\* array, an empty array, or only non-string or blank elements) changes
\* nothing observable: on every instance, a "th" instance without a
\* dictionary included, every later tokenize call returns what it would
\* have returned without the call. A call with valid words adds exactly
\* their trimmed forms and keeps every existing entry.
C29_NoWordNoChange == [][C29_Step]_vars

\* C30: for every configuration and every text each token in the list
\* tokenize returns is a non-empty string, and the list has exactly as
\* many tokens as survive the stopword stage (stemming never adds, removes
\* or empties a token).
C30_TokensNonEmpty ==
    (call.op = "tokenize" /\ Ran) =>
        /\ Len(call.result.items) = Len(call.run.filtered)
        /\ \A k \in DOMAIN call.result.items : call.result.items[k] # <<>>

====
